---- MODULE Spec2Model ----
(***************************************************************************)
(* Model of the octree patch (VolOctree) of bitpit: the patch mirrors a    *)
(* linear quadtree/octree as cells, vertices and interfaces and is kept in *)
(* step with the tree by VolOctree::sync after every adaption.             *)
(*                                                                         *)
(* The patch is modelled in two dimensions (PIXEL cells, LINE interfaces). *)
(* Coordinates are integers on the uniform grid of the deepest level the   *)
(* model lets the tree reach.                                              *)
(***************************************************************************)
EXTENDS Integers, Sequences, FiniteSets, TLC

(***************************************************************************)
(* Bounds of the model.                                                    *)
(***************************************************************************)
\* deepest refinement level the tree may reach
MaxLevel == 3
\* a cell is marked for refinement only while the refined tree stays within
\* this number of octants; the constructor's uniform refinement too
MaxOctants == 7
\* number of octants that may carry a non-zero marker at the same time
MaxMarked == 4
\* number of update_adaption calls in one run
MaxAdaptions == 4
\* width in bits of an int of the model (ids are longs, which are wider)
IntBits == 16
\* largest rank of a distributed run
MaxRank == 1
\* deepest uniform patch of the round trip of refinement and coarsening
MaxUniformLevel == 2
\* where balancing is at work: octants the refined tree may have before it is
\* balanced, markers set at the same time, octants balancing is enabled on
MaxDeepOctants == 10
MaxDeepMarked == 1
MaxBalanced == 2
\* number of scalings applied to a patch, and the lengths of its domain
MaxScalings == 1
\* number of translations applied to a patch
MaxTranslations == 1
MaxLength == 2
\* ids a single cell may hold in its interface and adjacency runs together
MaxItems == 3
\* ids a cell whose storage is reset may hold in its runs together
MaxStoredItems == 2
\* largest marker set on an octant of the tree
MaxMarker == 2
\* largest coordinate of a point given to the geometry kernel
MaxCoord == 2
\* barycentric coordinates are multiples of 1 / LambdaUnit
LambdaUnit == 3

(***************************************************************************)
(* Program constants.                                                      *)
(***************************************************************************)
\* dimension of the patch (constructor argument)
Dimension == 2
\* Element::NULL_ID, the id of no element
NULL_ID == -1
\* getRank: the rank of the process in the build with MPI
currentRank == 0
\* the tolerance 1e-14 of scale, in ticks
Tolerance == 2

RECURSIVE Pow2(_)
Pow2(n) == IF n <= 0 THEN 1 ELSE 2 * Pow2(n - 1)

nCellFaces == 2 * Dimension
nCellVertices == Pow2(Dimension)
nChildren == Pow2(Dimension)

Faces == 0 .. (nCellFaces - 1)
LocalVertices == 0 .. (nCellVertices - 1)

\* classGlobal::oppface: face of the neighbour through the i-th face
oppositeFace == <<1, 0, 3, 2>>

\* reference PIXEL: local vertices of each face (faces -x, +x, -y, +y)
cellLocalFaceConnect == << <<0, 2>>, <<1, 3>>, <<0, 1>>, <<2, 3>> >>

\* m_octantLocalFacesOnVertex of a two-dimensional patch
octantLocalFacesOnVertex == << <<0, 2>>, <<1, 2>>, <<0, 3>>, <<1, 3>> >>

\* m_octantLocalEdgesOnVertex and m_octantLocalFacesOnEdge of a
\* three-dimensional patch
octantLocalEdgesOnVertex3D ==
    << <<0, 2, 4>>, <<1, 2, 5>>, <<0, 3, 6>>, <<1, 3, 7>>,
       <<4, 8, 10>>, <<5, 9, 10>>, <<6, 8, 11>>, <<7, 9, 11>> >>

octantLocalFacesOnEdge3D ==
    << <<0, 4>>, <<1, 4>>, <<2, 4>>, <<3, 4>>, <<0, 2>>, <<1, 2>>,
       <<0, 3>>, <<1, 3>>, <<0, 5>>, <<1, 5>>, <<2, 5>>, <<3, 5>> >>

(***************************************************************************)
(* Small helpers.                                                          *)
(***************************************************************************)
Range(s) == {s[i] : i \in DOMAIN s}

Min(S) == CHOOSE m \in S : \A n \in S : m <= n

RECURSIVE SortedSeq(_)
SortedSeq(S) == IF S = {} THEN <<>> ELSE <<Min(S)>> \o SortedSeq(S \ {Min(S)})

RECURSIVE Flatten(_)
Flatten(ss) == IF ss = <<>> THEN <<>> ELSE Head(ss) \o Flatten(Tail(ss))

(***************************************************************************)
(* The linear tree.  An octant is a square [x, x+size) x [y, y+size) at    *)
(* some level with a marker and a balance flag; the tree is the sequence   *)
(* of its leaves in Morton order (tree index t is position t+1).           *)
(***************************************************************************)
OctSize(o) == Pow2(MaxLevel - o.level)

Octant(x, y, level, marker, balance) ==
    [x |-> x, y |-> y, level |-> level, marker |-> marker, balance |-> balance]

\* coordinates of the k-th node of an octant
getNode(o, k) == <<o.x + (k % 2) * OctSize(o), o.y + (k \div 2) * OctSize(o)>>

\* Morton key of a grid point: the bits of x and y interleaved
RECURSIVE Morton(_, _)
Morton(x, y) ==
    IF x = 0 /\ y = 0 THEN 0
    ELSE (x % 2) + 2 * (y % 2) + 4 * Morton(x \div 2, y \div 2)

getNodeMorton(o, k) == Morton(getNode(o, k)[1], getNode(o, k)[2])

getMaxDepth(T) == IF T = <<>> THEN 0
                  ELSE CHOOSE l \in {T[i].level : i \in DOMAIN T} :
                           \A i \in DOMAIN T : T[i].level <= l

\* the two closed squares touch (face or corner) or overlap
Touch(a, b) ==
    /\ a.x <= b.x + OctSize(b) /\ b.x <= a.x + OctSize(a)
    /\ a.y <= b.y + OctSize(b) /\ b.y <= a.y + OctSize(a)

\* b lies across face f of a, sharing a piece of that face
AcrossFace(a, f, b) ==
    LET sa == OctSize(a)
        sb == OctSize(b)
        ovx == a.x < b.x + sb /\ b.x < a.x + sa
        ovy == a.y < b.y + sb /\ b.y < a.y + sa
    IN  CASE f = 0 -> b.x + sb = a.x /\ ovy
          [] f = 1 -> b.x = a.x + sa /\ ovy
          [] f = 2 -> b.y + sb = a.y /\ ovx
          [] OTHER -> b.y = a.y + sa /\ ovx

\* tree indices of the neighbours of octant t across face f, in tree order
findNeighbours(T, t, f) ==
    SortedSeq({j \in 0 .. (Len(T) - 1) : j # t /\ AcrossFace(T[t + 1], f, T[j + 1])})

(***************************************************************************)
(* adapt: one adaption step of the tree.  While adapting, every octant     *)
(* carries its mapping entry: the pre-adaption indices it comes from and   *)
(* the flags isNewR / isNewC.                                              *)
(***************************************************************************)
WithMapping(T) ==
    [i \in DOMAIN T |->
        [oct |-> T[i], map |-> <<i - 1>>, rank |-> <<currentRank>>,
         newR |-> FALSE, newC |-> FALSE]]

Refinable(w) == w.oct.marker > 0 /\ w.oct.level < MaxLevel

Children(w) ==
    LET o == w.oct
        h == OctSize(o) \div 2
    IN  [k \in 1 .. nChildren |->
            [oct  |-> Octant(o.x + ((k - 1) % 2) * h, o.y + ((k - 1) \div 2) * h,
                             o.level + 1, o.marker - 1, o.balance),
             map  |-> w.map, rank |-> w.rank, newR |-> TRUE, newC |-> FALSE]]

\* one refinement pass: every refinable octant is replaced by its children
RefinePass(W) ==
    Flatten([i \in DOMAIN W |-> IF Refinable(W[i]) THEN Children(W[i]) ELSE <<W[i]>>])

\* markers greater than one are expanded into successive passes
RECURSIVE RefineAll(_)
RefineAll(W) ==
    IF \E i \in DOMAIN W : Refinable(W[i]) THEN RefineAll(RefinePass(W)) ELSE W

\* W[i..i+3] are the four children of one parent, all marked for coarsening
IsFamily(W, i) ==
    /\ i + nChildren - 1 <= Len(W)
    /\ W[i].oct.level >= 1
    /\ LET l == W[i].oct.level
           h == OctSize(W[i].oct)
       IN  /\ W[i].oct.x % (2 * h) = 0
           /\ W[i].oct.y % (2 * h) = 0
           /\ \A k \in 0 .. (nChildren - 1) :
                 /\ W[i + k].oct.level = l
                 /\ W[i + k].oct.marker < 0
                 /\ W[i + k].oct.x = W[i].oct.x + (k % 2) * h
                 /\ W[i + k].oct.y = W[i].oct.y + (k \div 2) * h

Parent(W, i) ==
    [oct  |-> Octant(W[i].oct.x, W[i].oct.y, W[i].oct.level - 1, 0,
                     \E k \in 0 .. (nChildren - 1) : W[i + k].oct.balance),
     map  |-> Flatten([k \in 1 .. nChildren |-> W[i + k - 1].map]),
     rank |-> Flatten([k \in 1 .. nChildren |-> W[i + k - 1].rank]),
     newR |-> FALSE, newC |-> TRUE]

\* the merged parent would not break the 2:1 balance with a balanced neighbour
BalanceCompatible(W, i) ==
    LET p == Parent(W, i).oct
    IN  ~ (p.balance /\ \E j \in DOMAIN W :
                /\ (j < i \/ j > i + nChildren - 1)
                /\ W[j].oct.balance
                /\ Touch(p, W[j].oct)
                /\ W[j].oct.level > p.level + 1)

RECURSIVE CoarsenFrom(_, _)
CoarsenFrom(W, i) ==
    IF i > Len(W) THEN <<>>
    ELSE IF IsFamily(W, i) /\ BalanceCompatible(W, i)
         THEN <<Parent(W, i)>> \o CoarsenFrom(W, i + nChildren)
         ELSE <<W[i]>> \o CoarsenFrom(W, i + 1)

CoarsenPass(W) == CoarsenFrom(W, 1)

\* a variant of Unbalanced that looks at the neighbours across the faces only
UnbalancedAcrossFaces(W, j) ==
    /\ W[j].oct.balance
    /\ W[j].oct.level < MaxLevel
    /\ \E i \in DOMAIN W :
          /\ i # j
          /\ W[i].oct.balance
          /\ \E f \in Faces : AcrossFace(W[j].oct, f, W[i].oct)
          /\ W[i].oct.level > W[j].oct.level + 1

\* octant j is balanced and has a balanced neighbour more than one level finer
Unbalanced(W, j) ==
    /\ W[j].oct.balance
    /\ W[j].oct.level < MaxLevel
    /\ \E i \in DOMAIN W :
          /\ i # j
          /\ W[i].oct.balance
          /\ Touch(W[i].oct, W[j].oct)
          /\ W[i].oct.level > W[j].oct.level + 1

RECURSIVE BalanceAll(_)
BalanceAll(W) ==
    IF \E j \in DOMAIN W : Unbalanced(W, j)
    THEN BalanceAll(Flatten([j \in DOMAIN W |->
             IF Unbalanced(W, j) THEN Children(W[j]) ELSE <<W[j]>>]))
    ELSE W

\* the adapted tree with its mapping entries; markers are consumed
AdaptWork(T) == BalanceAll(CoarsenPass(RefineAll(WithMapping(T))))

AdaptTree(T) ==
    LET W == AdaptWork(T)
    IN  [i \in DOMAIN W |-> [W[i].oct EXCEPT !.marker = 0]]

AdaptMapping(T) ==
    LET W == AdaptWork(T)
    IN  [i \in DOMAIN W |-> [map |-> W[i].map, rank |-> W[i].rank,
                              newR |-> W[i].newR, newC |-> W[i].newC]]

\* the return value of adapt: something changed
AdaptUpdated(T) ==
    LET W == AdaptWork(T)
    IN  \E i \in DOMAIN W : W[i].newR \/ W[i].newC

(***************************************************************************)
(* The patch.  Cells, vertices and interfaces live in id-keyed containers  *)
(* (functions from the stored ids); a patch value P is the record          *)
(*   cells, vertices, interfaces, cellToOctant, octantToCell, next         *)
(* where next holds the id generators.                                     *)
(***************************************************************************)
Restrict(f, S) == [x \in S |-> f[x]]

EmptyRuns == [f \in 1 .. nCellFaces |-> <<>>]

EmptyPatch ==
    [cells |-> <<>>, vertices |-> <<>>, interfaces |-> <<>>,
     cellToOctant |-> <<>>, octantToCell |-> <<>>,
     next |-> [cell |-> 0, vertex |-> 0, interface |-> 0]]

getCellCount(P) == Cardinality(DOMAIN P.cells)

\* id of the cell of internal octant t, NULL_ID when the map has no entry
getOctantId(octantToCell, t) ==
    IF t \in DOMAIN octantToCell THEN octantToCell[t] ELSE NULL_ID

\* narrowing of a long to the int parameter of findAdjacency / findInterface
ToInt(id) == ((id + Pow2(IntBits - 1)) % Pow2(IntBits)) - Pow2(IntBits - 1)

\* position (from 0) of the id in the run of a face, -1 when absent
findAdjacency(run, adjacency) ==
    IF \E i \in DOMAIN run : run[i] = ToInt(adjacency)
    THEN Min({i \in DOMAIN run : run[i] = ToInt(adjacency)}) - 1
    ELSE -1

findInterface(run, interface) ==
    IF \E i \in DOMAIN run : run[i] = ToInt(interface)
    THEN Min({i \in DOMAIN run : run[i] = ToInt(interface)}) - 1
    ELSE -1

\* an id is appended to the run of a face unless the run already holds it
pushAdjacency(run, adjacency) ==
    IF findAdjacency(run, adjacency) >= 0 THEN run ELSE Append(run, adjacency)

pushInterface(run, interface) ==
    IF findInterface(run, interface) >= 0 THEN run ELSE Append(run, interface)

\* the item at position i (from 0) of the run is erased, the items after it
\* move one position down; i is a position of the run
eraseItem(run, i) ==
    [k \in 1 .. (Len(run) - 1) |-> IF k <= i THEN run[k] ELSE run[k + 1]]

deleteAdjacency(run, i) == eraseItem(run, i)

deleteInterface(run, i) == eraseItem(run, i)

isFaceBorder(cell, face) == Len(cell.adjacencies[face + 1]) = 0

\* all the interface ids a cell lists, over its faces
CellInterfaces(cell) == UNION {Range(cell.interfaces[f]) : f \in 1 .. nCellFaces}

CellAdjacencies(cell) == UNION {Range(cell.adjacencies[f]) : f \in 1 .. nCellFaces}

(***************************************************************************)
(* sync, first part: the loop over the octants of the adapted tree that    *)
(* classifies them and collects the added, renumbered and deleted octants  *)
(* and the cell events.                                                    *)
(***************************************************************************)
\* a variant of AdaptionType that applies the rules of the mapped adaption
\* after every tree operation
AdaptionTypeAnyOperation(importAll, lastTreeOperation, m, treeId) ==
    IF importAll THEN "CREATION"
    ELSE IF m.newR THEN "REFINEMENT"
    ELSE IF m.newC THEN "COARSENING"
    ELSE IF treeId # m.map[1] THEN "RENUMBERING"
    ELSE "NONE"

\* the kind of adaption of octant treeId with mapping entry m
AdaptionType(importAll, lastTreeOperation, m, treeId) ==
    IF importAll THEN "CREATION"
    ELSE IF lastTreeOperation = "OP_ADAPTION_MAPPED"
    THEN IF m.newR THEN "REFINEMENT"
         ELSE IF m.newC THEN "COARSENING"
         ELSE IF treeId # m.map[1] THEN "RENUMBERING"
         ELSE "NONE"
    ELSE IF lastTreeOperation = "OP_LOAD_BALANCE"
    THEN IF currentRank # m.rank[1] THEN "PARTITION_RECV"
         ELSE IF treeId # m.map[1] THEN "RENUMBERING"
         ELSE "NONE"
    ELSE "NONE"

\* number of tree ids imported with octant treeId
nCurrentTreeIds(importAll, adaptionType, nOctants, treeId) ==
    IF importAll THEN nOctants - treeId
    ELSE IF adaptionType = "REFINEMENT" THEN nChildren
    ELSE 1

\* a variant of Event that stores the two id lists in each other's place
EventSwapped(type, entity, previous, current) ==
    [type |-> type, entity |-> entity, previous |-> current, current |-> previous]

\* adaption::Info: one entry of the list sync returns
Event(type, entity, previous, current) ==
    [type |-> type, entity |-> entity, previous |-> previous, current |-> current]

\* the types of which the collection of the infos keeps one info for each
\* entity and rank: create hands out the info it already holds
CachedTypes == {"DELETION", "CREATION", "PARTITION_SEND", "PARTITION_RECV"}

\* ranks: the rank each of the events was created with
EmptyScan ==
    [added |-> <<>>, renumbered |-> <<>>, deleted |-> <<>>, mapped |-> {},
     events |-> <<>>, ranks |-> <<>>]

NoMapping == [map |-> <<>>, rank |-> <<>>, newR |-> FALSE, newC |-> FALSE]

\* S: importAll, lastTreeOperation, nOctants, mapping, octantToCell, track
RECURSIVE ScanOctants(_, _, _)
ScanOctants(S, treeId, acc) ==
    IF treeId >= S.nOctants THEN acc
    ELSE
      LET m    == IF S.importAll THEN NoMapping ELSE S.mapping[treeId + 1]
          type == AdaptionType(S.importAll, S.lastTreeOperation, m, treeId)
      IN
      IF type = "NONE"
      THEN ScanOctants(S, treeId + 1, [acc EXCEPT !.mapped = @ \cup {treeId}])
      ELSE IF type = "RENUMBERING"
      THEN ScanOctants(S, treeId + 1,
               [acc EXCEPT
                  !.renumbered = Append(@, [cellId |-> getOctantId(S.octantToCell, m.map[1]),
                                            newTreeId |-> treeId]),
                  !.mapped = @ \cup {m.map[1]}])
      ELSE
        LET n        == nCurrentTreeIds(S.importAll, type, S.nOctants, treeId)
            current  == [k \in 1 .. n |-> treeId + k - 1]
            \* only the previous octants of this rank have a cell here
            local    == SelectSeq([k \in DOMAIN m.map |-> k],
                                  LAMBDA k : m.rank[k] = currentRank)
            previous == [k \in DOMAIN m.map |->
                            IF m.rank[k] # currentRank THEN NULL_ID
                            ELSE getOctantId(S.octantToCell, m.map[k])]
            rank     == IF type = "PARTITION_RECV" THEN m.rank[1] ELSE currentRank
            held     == {e \in DOMAIN acc.events :
                            /\ type \in CachedTypes
                            /\ acc.events[e].type = type
                            /\ acc.ranks[e] = rank}
        IN  ScanOctants(S, treeId + n,
               [acc EXCEPT
                  !.added   = @ \o current,
                  !.deleted = @ \o [j \in DOMAIN local |->
                                       [cellId |-> previous[local[j]], trigger |-> type,
                                        rank |-> -1]],
                  !.mapped  = @ \cup {m.map[local[j]] : j \in DOMAIN local},
                  !.events  = IF ~S.track THEN @
                              ELSE IF held = {}
                              THEN Append(@, Event(type, "CELL", previous, current))
                              ELSE [@ EXCEPT ![Min(held)] =
                                      [@ EXCEPT !.previous = @ \o previous,
                                                !.current  = @ \o current]],
                  !.ranks   = IF S.track /\ held = {} THEN Append(@, rank) ELSE @])

\* previous octants no current octant maps to: their cells are deleted
UnmappedDeleted(S, scan) ==
    LET ids == SortedSeq({t \in 0 .. (S.nPreviousOctants - 1) : t \notin scan.mapped})
    IN  [k \in DOMAIN ids |->
            [cellId |-> getOctantId(S.octantToCell, ids[k]), trigger |-> "DELETION",
             rank |-> -1]]

(***************************************************************************)
(* resetCellOctantMaps                                                     *)
(***************************************************************************)
HasDuplicates(seq) == \E i, j \in DOMAIN seq : i < j /\ seq[i] = seq[j]

Without1(map, key) == [x \in DOMAIN map \ {key} |-> map[x]]

\* first loop of resetCellOctantMaps: the entries of the cells to delete are
\* erased one cell after the other; the look-up of the octant of a cell
\* (map::at) throws when the map no longer holds the cell, and the maps stay
\* as the loop left them
RECURSIVE EraseDeleted(_, _, _)
EraseDeleted(maps, deleted, k) ==
    IF k > Len(deleted) \/ maps.thrown THEN maps
    ELSE IF deleted[k].cellId \notin DOMAIN maps.cellToOctant
    THEN [maps EXCEPT !.thrown = TRUE]
    ELSE EraseDeleted(
            [cellToOctant |-> Without1(maps.cellToOctant, deleted[k].cellId),
             octantToCell |-> Without1(maps.octantToCell,
                                       maps.cellToOctant[deleted[k].cellId]),
             thrown       |-> FALSE],
            deleted, k + 1)

\* second loop: the octant->cell entries of the renumbered cells are erased
RECURSIVE EraseRenumbered(_, _, _)
EraseRenumbered(maps, renumbered, k) ==
    IF k > Len(renumbered) \/ maps.thrown THEN maps
    ELSE IF renumbered[k].cellId \notin DOMAIN maps.cellToOctant
    THEN [maps EXCEPT !.thrown = TRUE]
    ELSE EraseRenumbered(
            [maps EXCEPT !.octantToCell =
                Without1(@, maps.cellToOctant[renumbered[k].cellId])],
            renumbered, k + 1)

\* the maps after the two erasing loops, or as the throw left them
ErasedMaps(P, deleted, renumbered) ==
    EraseRenumbered(
        EraseDeleted([cellToOctant |-> P.cellToOctant, octantToCell |-> P.octantToCell,
                      thrown |-> FALSE], deleted, 1),
        renumbered, 1)

\* the lookups of the cell's octant (map::at) that throw
ResetMapsThrows(P, deleted, renumbered) == ErasedMaps(P, deleted, renumbered).thrown

\* the patch a throw of resetCellOctantMaps leaves behind
resetCellOctantMapsThrown(P, deleted, renumbered) ==
    [P EXCEPT !.cellToOctant = ErasedMaps(P, deleted, renumbered).cellToOctant,
              !.octantToCell = ErasedMaps(P, deleted, renumbered).octantToCell]

\* map::insert keeps the value of a key that is already there
MapInsert(map, key, value) ==
    IF key \in DOMAIN map THEN map
    ELSE [x \in DOMAIN map \cup {key} |-> IF x = key THEN value ELSE map[x]]

\* map[key] = value
MapSet(map, key, value) ==
    [x \in DOMAIN map \cup {key} |-> IF x = key THEN value ELSE map[x]]

\* the id given to the k-th generated cell
generateCellId(next, k) == next.cell + k - 1

\* a variant of InsertAdded that takes the ids from those the maps no longer
\* hold once the dead cells have left them
RECURSIVE InsertAddedReusingIds(_, _, _, _)
InsertAddedReusingIds(maps, added, next, k) ==
    IF k > Len(added) THEN maps
    ELSE LET id == Min({c \in 0 .. (next.cell + Len(added)) :
                           c \notin DOMAIN maps.cellToOctant})
         IN  InsertAddedReusingIds(
                [cellToOctant |-> MapInsert(maps.cellToOctant, id, added[k]),
                 octantToCell |-> MapInsert(maps.octantToCell, added[k], id)],
                added, next, k + 1)

RECURSIVE InsertAdded(_, _, _, _)
InsertAdded(maps, added, next, k) ==
    IF k > Len(added) THEN maps
    ELSE InsertAdded(
            [cellToOctant |-> MapInsert(maps.cellToOctant, generateCellId(next, k), added[k]),
             octantToCell |-> MapInsert(maps.octantToCell, added[k], generateCellId(next, k))],
            added, next, k + 1)

\* a variant of SetRenumbered that leaves the renumbered cells out of the maps
KeepNumbering(maps, renumbered, k) == maps

RECURSIVE SetRenumbered(_, _, _)
SetRenumbered(maps, renumbered, k) ==
    IF k > Len(renumbered) THEN maps
    ELSE SetRenumbered(
            [cellToOctant |-> MapSet(maps.cellToOctant, renumbered[k].cellId, renumbered[k].newTreeId),
             octantToCell |-> MapSet(maps.octantToCell, renumbered[k].newTreeId, renumbered[k].cellId)],
            renumbered, k + 1)

resetCellOctantMaps(P, deleted, renumbered, added) ==
    LET dead        == {deleted[k].cellId : k \in DOMAIN deleted}
        deadTrees   == {P.cellToOctant[c] : c \in dead}
        movedTrees  == {P.cellToOctant[renumbered[k].cellId] : k \in DOMAIN renumbered}
        afterErase  == [cellToOctant |-> Restrict(P.cellToOctant, DOMAIN P.cellToOctant \ dead),
                        octantToCell |-> Restrict(P.octantToCell,
                                            DOMAIN P.octantToCell \ (deadTrees \cup movedTrees))]
        afterRenum  == SetRenumbered(afterErase, renumbered, 1)
        afterInsert == InsertAdded(afterRenum, added, P.next, 1)
    IN  [P EXCEPT !.cellToOctant = afterInsert.cellToOctant,
                  !.octantToCell = afterInsert.octantToCell,
                  !.next.cell = @ + Len(added)]

(***************************************************************************)
(* deleteCells                                                             *)
(***************************************************************************)
isBorder(interface) == interface.neigh = NULL_ID

\* side of a dead interface that keeps living: 0 the owner, 1 the neighbour
danglingSide(interface, deadCells) ==
    IF isBorder(interface) THEN -1
    ELSE IF interface.owner \notin deadCells THEN 0
    ELSE IF interface.neigh \notin deadCells THEN 1
    ELSE -1

danglingCellId(interface, side) ==
    IF side = 0 THEN interface.owner ELSE interface.neigh

\* a variant of danglingNeighId that takes the neighbour on either side
danglingNeighOnEitherSide(interface, side) == interface.neigh

danglingNeighId(interface, side) ==
    IF side = 0 THEN interface.neigh ELSE interface.owner

danglingCellFace(interface, side) ==
    IF side = 0 THEN interface.ownerFace ELSE interface.neighFace

RECURSIVE EraseInterfaces(_, _)
EraseInterfaces(run, ids) ==
    IF ids = <<>> THEN run
    ELSE EraseInterfaces(deleteInterface(run, findInterface(run, Head(ids))), Tail(ids))

\* a variant of EraseAdjacencies that leaves the dead neighbours in the run
KeepAdjacencies(run, ids) == run

RECURSIVE EraseAdjacencies(_, _)
EraseAdjacencies(run, ids) ==
    IF ids = <<>> THEN run
    ELSE EraseAdjacencies(deleteAdjacency(run, findAdjacency(run, Head(ids))), Tail(ids))

\* a variant of DeadInterfaces that takes the interfaces the dead cells own
InterfacesOwnedByDead(P, deadCells) ==
    {i \in UNION {CellInterfaces(P.cells[c]) : c \in deadCells} :
        i >= 0 /\ P.interfaces[i].owner \in deadCells}

\* the interfaces of the dead cells
DeadInterfaces(P, deadCells) ==
    {i \in UNION {CellInterfaces(P.cells[c]) : c \in deadCells} : i >= 0}

\* the dead interfaces that leave face f of the living cell c open
DanglingOn(P, deadCells, c, f) ==
    {i \in DeadInterfaces(P, deadCells) :
        LET side == danglingSide(P.interfaces[i], deadCells)
        IN  /\ side >= 0
            /\ danglingCellId(P.interfaces[i], side) = c
            /\ danglingCellFace(P.interfaces[i], side) = f}

DanglingCells(P, deadCells) ==
    {danglingCellId(P.interfaces[i], danglingSide(P.interfaces[i], deadCells)) :
        i \in {j \in DeadInterfaces(P, deadCells) :
                  danglingSide(P.interfaces[j], deadCells) >= 0}}

\* a living cell once the dead interfaces and dead neighbours left its runs
Detached(P, deadCells, c) ==
    [P.cells[c] EXCEPT
       !.interfaces = [f \in 1 .. nCellFaces |->
           EraseInterfaces(@[f], SortedSeq(DanglingOn(P, deadCells, c, f - 1)))],
       !.adjacencies = [f \in 1 .. nCellFaces |->
           EraseAdjacencies(@[f],
               SortedSeq({danglingNeighId(P.interfaces[i],
                                          danglingSide(P.interfaces[i], deadCells)) :
                             i \in DanglingOn(P, deadCells, c, f - 1)}))]]

\* (node key, vertex id) pairs of the dangling cells and of the owner faces
\* of the interfaces they keep
StitchPairs(T, cells, interfaces, cellToOctant, dangling) ==
    UNION {
        {<<getNodeMorton(T[cellToOctant[c] + 1], k), cells[c].connect[k + 1]>> :
            k \in LocalVertices}
        \cup
        UNION {
            LET owner     == interfaces[i].owner
                ownerFace == interfaces[i].ownerFace
            IN  {<<getNodeMorton(T[cellToOctant[owner] + 1],
                                 cellLocalFaceConnect[ownerFace + 1][k]),
                   cells[owner].connect[cellLocalFaceConnect[ownerFace + 1][k] + 1]>> :
                    k \in 1 .. Len(cellLocalFaceConnect[ownerFace + 1])}
            : i \in {j \in CellInterfaces(cells[c]) : j >= 0 /\ ~isBorder(interfaces[j])}}
        : c \in dangling}

\* a variant of StitchMap that hands no vertex over to the import
NoStitchMap(pairs) == <<>>

\* the map node key -> vertex id of a set of pairs (the first inserted pair of
\* a key wins; the pairs of one key agree whenever vertices are stitched)
StitchMap(pairs) ==
    [key \in {p[1] : p \in pairs} |-> Min({p[2] : p \in {q \in pairs : q[1] = key}})]

\* a variant of DeadVertices that takes every vertex of the dead cells
VerticesOfDeadCells(P, deadCells, pairs) ==
    UNION {Range(P.cells[c].connect) : c \in deadCells}

\* the vertices of the dead cells that no stitch pair keeps
DeadVertices(P, deadCells, pairs) ==
    UNION {Range(P.cells[c].connect) : c \in deadCells} \ {p[2] : p \in pairs}

\* result: the patch without the dead cells, and the stitch vertices
deleteCells(P, T, deleted) ==
    LET deadCells      == {deleted[k].cellId : k \in DOMAIN deleted}
        deadInterfaces == DeadInterfaces(P, deadCells)
        dangling       == DanglingCells(P, deadCells)
        living         == DOMAIN P.cells \ deadCells
        cells          == [c \in living |-> IF c \in dangling
                                            THEN Detached(P, deadCells, c)
                                            ELSE P.cells[c]]
        interfaces     == Restrict(P.interfaces, DOMAIN P.interfaces \ deadInterfaces)
        pairs          == StitchPairs(T, cells, interfaces, P.cellToOctant, dangling)
        deadVertices   == DeadVertices(P, deadCells, pairs)
    IN  [patch  |-> [P EXCEPT !.cells = cells,
                              !.interfaces = interfaces,
                              !.vertices = Restrict(@, DOMAIN @ \ deadVertices)],
         stitch |-> StitchMap(pairs),
         dangling |-> dangling]

(***************************************************************************)
(* updateAdjacencies                                                       *)
(***************************************************************************)
\* the octant info of an interior cell
InternalOctant(cellToOctant, id) == [internal |-> TRUE, id |-> cellToOctant[id]]

\* VolOctree::getCellLevel: the level of the octant of the cell, which is one
\* of the octants T of the tree or one of its ghost octants G
getCellLevel(T, G, octantInfo) ==
    IF octantInfo.internal THEN T[octantInfo.id + 1].level
    ELSE G[octantInfo.id + 1].level

\* the level of a cell of a patch that holds interior cells only
InteriorLevel(T, cellToOctant, id) ==
    getCellLevel(T, <<>>, InternalOctant(cellToOctant, id))

\* the cells sorted by tree level, cells of one level in the given order
hierarchicalCellIds(T, cellToOctant, cellIds) ==
    Flatten([l \in 1 .. (getMaxDepth(T) + 1) |->
                SelectSeq(cellIds, LAMBDA c : InteriorLevel(T, cellToOctant, c) = l - 1)])

\* a variant of PushNeighbours that sets the neighbours on the side of the
\* processed cell only
PushOwnSideOnly(cells, cellId, face, neighIds, k) ==
    [cells EXCEPT
       ![cellId].adjacencies[face + 1] =
           @ \o SelectSeq(neighIds, LAMBDA n : n \notin Range(@))]

\* the neighbours found across one face are set on both sides
RECURSIVE PushNeighbours(_, _, _, _, _)
PushNeighbours(cells, cellId, face, neighIds, k) ==
    IF k > Len(neighIds) THEN cells
    ELSE
      LET neighId   == neighIds[k]
          neighFace == oppositeFace[face + 1]
          pushed    == [cells EXCEPT
                          ![cellId].adjacencies[face + 1] = pushAdjacency(@, neighId)]
      IN  PushNeighbours(
              IF neighId \in DOMAIN cells
              THEN [pushed EXCEPT
                      ![neighId].adjacencies[neighFace + 1] = pushAdjacency(@, cellId)]
              ELSE pushed,
              cellId, face, neighIds, k + 1)

\* work: the (cell, face) pairs in processing order; acc: cells, processed
RECURSIVE AdjacencyLoop(_, _, _, _, _)
AdjacencyLoop(T, maps, work, n, acc) ==
    IF n > Len(work) THEN acc
    ELSE
      LET cellId == work[n][1]
          face   == work[n][2]
      IN
      IF <<cellId, face>> \in acc.processed
      THEN AdjacencyLoop(T, maps, work, n + 1, acc)
      ELSE
        LET neighTreeIds == findNeighbours(T, maps.cellToOctant[cellId], face)
            neighIds     == [k \in DOMAIN neighTreeIds |->
                                getOctantId(maps.octantToCell, neighTreeIds[k])]
        IN  AdjacencyLoop(T, maps, work, n + 1,
                [cells     |-> PushNeighbours(acc.cells, cellId, face, neighIds, 1),
                 processed |-> acc.processed \cup
                                  {<<neighIds[k], oppositeFace[face + 1]>> :
                                      k \in DOMAIN neighIds}])

FaceWork(cellIds) ==
    Flatten([i \in DOMAIN cellIds |-> [f \in 1 .. nCellFaces |-> <<cellIds[i], f - 1>>]])

updateAdjacencies(P, T, cellIds) ==
    LET maps  == [cellToOctant |-> P.cellToOctant, octantToCell |-> P.octantToCell]
        order == hierarchicalCellIds(T, P.cellToOctant, cellIds)
    IN  [P EXCEPT !.cells =
            AdjacencyLoop(T, maps, FaceWork(order), 1,
                          [cells |-> P.cells, processed |-> {}]).cells]

(***************************************************************************)
(* updateInterfaces: an interface for every (cell face, neighbour) pair    *)
(* and every border face of the given cells that has none yet.             *)
(***************************************************************************)
\* the owner is the finer cell, the cell of lower id between equal levels
OwnsInterface(T, cellToOctant, cellId, neighId) ==
    LET cl == InteriorLevel(T, cellToOctant, cellId)
        nl == InteriorLevel(T, cellToOctant, neighId)
    IN  cl > nl \/ (cl = nl /\ cellId < neighId)

buildCellInterface(T, cellToOctant, cellId, face, neighId) ==
    IF neighId = NULL_ID
    THEN [owner |-> cellId, ownerFace |-> face, neigh |-> NULL_ID, neighFace |-> -1]
    ELSE IF OwnsInterface(T, cellToOctant, cellId, neighId)
    THEN [owner |-> cellId, ownerFace |-> face,
          neigh |-> neighId, neighFace |-> oppositeFace[face + 1]]
    ELSE [owner |-> neighId, ownerFace |-> oppositeFace[face + 1],
          neigh |-> cellId, neighFace |-> face]

\* face of the cell already has an interface shared with the neighbour
HasInterfaceWith(acc, cellId, face, neighId) ==
    \E i \in Range(acc.cells[cellId].interfaces[face + 1]) :
        /\ i \in DOMAIN acc.interfaces
        /\ IF neighId = NULL_ID
           THEN isBorder(acc.interfaces[i])
           ELSE neighId \in {acc.interfaces[i].owner, acc.interfaces[i].neigh}

\* acc: cells, interfaces, next (the next interface id)
LinkInterface(T, cellToOctant, acc, cellId, face, neighId) ==
    IF HasInterfaceWith(acc, cellId, face, neighId) THEN acc
    ELSE
      LET id        == acc.next
          interface == buildCellInterface(T, cellToOctant, cellId, face, neighId)
          linked    == [acc.cells EXCEPT
                          ![cellId].interfaces[face + 1] = pushInterface(@, id)]
      IN  [cells |-> IF neighId \in DOMAIN linked
                     THEN [linked EXCEPT
                             ![neighId].interfaces[oppositeFace[face + 1] + 1] =
                                 pushInterface(@, id)]
                     ELSE linked,
           interfaces |-> MapSet(acc.interfaces, id, interface),
           next |-> id + 1]

RECURSIVE LinkNeighbours(_, _, _, _, _, _, _)
LinkNeighbours(T, cellToOctant, acc, cellId, face, neighIds, k) ==
    IF k > Len(neighIds) THEN acc
    ELSE LinkNeighbours(T, cellToOctant,
             LinkInterface(T, cellToOctant, acc, cellId, face, neighIds[k]),
             cellId, face, neighIds, k + 1)

RECURSIVE InterfaceLoop(_, _, _, _, _)
InterfaceLoop(T, cellToOctant, work, n, acc) ==
    IF n > Len(work) THEN acc
    ELSE IF isFaceBorder(acc.cells[work[n][1]], work[n][2])
    THEN InterfaceLoop(T, cellToOctant, work, n + 1,
             LinkInterface(T, cellToOctant, acc, work[n][1], work[n][2], NULL_ID))
    ELSE InterfaceLoop(T, cellToOctant, work, n + 1,
             LinkNeighbours(T, cellToOctant, acc, work[n][1], work[n][2],
                            acc.cells[work[n][1]].adjacencies[work[n][2] + 1], 1))

updateInterfaces(P, T, cellIds) ==
    LET done == InterfaceLoop(T, P.cellToOctant, FaceWork(cellIds), 1,
                    [cells |-> P.cells, interfaces |-> P.interfaces,
                     next |-> P.next.interface])
    IN  [P EXCEPT !.cells = done.cells,
                  !.interfaces = done.interfaces,
                  !.next.interface = done.next]

(***************************************************************************)
(* importCells                                                             *)
(***************************************************************************)
\* the nodes of the imported octants in the order they are visited
ImportedNodes(T, added) ==
    Flatten([i \in DOMAIN added |->
                [k \in 1 .. nCellVertices |->
                    [key    |-> getNodeMorton(T[added[i] + 1], k - 1),
                     coords |-> getNode(T[added[i] + 1], k - 1)]]])

\* the visited nodes that get a new vertex: first visit of a key that the
\* stitching info does not hold
NewNodes(nodes, stitch) ==
    LET idx == SortedSeq({i \in DOMAIN nodes :
                            /\ nodes[i].key \notin DOMAIN stitch
                            /\ \A j \in 1 .. (i - 1) : nodes[j].key # nodes[i].key})
    IN  [n \in DOMAIN idx |-> nodes[idx[n]]]

\* id of the k-th vertex added
addVertexId(next, k) == next.vertex + k - 1

StitchWithNew(stitch, new, next) ==
    [key \in DOMAIN stitch \cup {new[n].key : n \in DOMAIN new} |->
        IF key \in DOMAIN stitch THEN stitch[key]
        ELSE addVertexId(next, CHOOSE n \in DOMAIN new : new[n].key = key)]

addCell(interior, connect) ==
    [connect |-> connect, interior |-> interior,
     adjacencies |-> EmptyRuns, interfaces |-> EmptyRuns]

importCells(P, T, added, stitchInfo) ==
    LET new      == NewNodes(ImportedNodes(T, added), stitchInfo)
        stitch   == StitchWithNew(stitchInfo, new, P.next)
        vertices == [v \in DOMAIN P.vertices \cup
                              {addVertexId(P.next, n) : n \in DOMAIN new} |->
                        IF v \in DOMAIN P.vertices THEN P.vertices[v]
                        ELSE new[v - P.next.vertex + 1].coords]
        created  == [i \in DOMAIN added |-> getOctantId(P.octantToCell, added[i])]
        connect  == [i \in DOMAIN added |->
                        [k \in 1 .. nCellVertices |->
                            stitch[getNodeMorton(T[added[i] + 1], k - 1)]]]
        cells    == [c \in DOMAIN P.cells \cup Range(created) |->
                        IF c \in Range(created)
                        THEN addCell(TRUE, connect[CHOOSE i \in DOMAIN created : created[i] = c])
                        ELSE P.cells[c]]
        withCells == [P EXCEPT !.cells = cells, !.vertices = vertices,
                               !.next.vertex = @ + Len(new)]
    IN  [patch   |-> updateInterfaces(updateAdjacencies(withCells, T, created), T, created),
         created |-> created]

(***************************************************************************)
(* sync                                                                    *)
(***************************************************************************)
\* the sum of the points, coordinate by coordinate
RECURSIVE SumPoints(_)
SumPoints(points) ==
    IF Len(points) = 1 THEN points[1]
    ELSE LET rest == SumPoints(Tail(points))
         IN  [d \in DOMAIN rest |-> points[1][d] + rest[d]]

\* PatchKernel::evalCellCentroid, from the vertices of the cell: the centroid
\* times the number of the vertices
CellCentroids(P) ==
    [c \in DOMAIN P.cells |->
        SumPoints([k \in DOMAIN P.cells[c].connect |->
                      P.vertices[P.cells[c].connect[k]]])]

\* CellPositionLess: the centroids compared coordinate by coordinate
CellPositionLess(a, b) ==
    IF a[1] # b[1] THEN a[1] < b[1] ELSE a[2] < b[2]

\* std::sort of the cell ids with CellPositionLess; centroid holds the
\* centroid of every cell
RECURSIVE SortedByPosition(_, _)
SortedByPosition(ids, centroid) ==
    IF ids = <<>> THEN <<>>
    ELSE LET k == CHOOSE i \in DOMAIN ids :
                     \A j \in DOMAIN ids :
                         ~CellPositionLess(centroid[ids[j]], centroid[ids[i]])
         IN  <<ids[k]>>
               \o SortedByPosition(SubSeq(ids, 1, k - 1) \o SubSeq(ids, k + 1, Len(ids)),
                                   centroid)

\* cells deleted by a real deletion or by a send are tracked in one event
\* for each trigger and rank of the deleted list (the collection hands out
\* the info it already holds for a type, entity and rank), the events in the
\* order of their first cell.  The cells of a deletion are in the order of
\* the deleted list, the cells sent are sorted by their position in the
\* patch P, which still holds them
DeletionEvents(P, deleted) ==
    LET own        == SelectSeq(deleted,
                                LAMBDA d : d.trigger \in {"DELETION", "PARTITION_SEND"})
        same(a, b) == a.trigger = b.trigger /\ a.rank = b.rank
        first(k)   == \A j \in 1 .. (k - 1) : ~same(own[j], own[k])
        heads      == SelectSeq([k \in DOMAIN own |-> k], first)
        ids(h)     == LET cellsOf == SelectSeq(own, LAMBDA d : same(d, own[h]))
                          listed  == [k \in DOMAIN cellsOf |-> cellsOf[k].cellId]
                      IN  IF own[h].trigger = "PARTITION_SEND"
                          THEN SortedByPosition(listed, CellCentroids(P))
                          ELSE listed
    IN  [h \in DOMAIN heads |->
            Event(own[heads[h]].trigger, "CELL", ids(heads[h]), <<>>)]

\* the interfaces of the cells that are about to be deleted.  The ids are
\* collected in an unordered set and listed as the set iterates: the order
\* is not determined, the event of the model holds them as a set
RemovedInterfacesEvent(P, deleted) ==
    Event("DELETION", "INTERFACE",
          {i \in UNION {CellInterfaces(P.cells[deleted[k].cellId]) :
                           k \in DOMAIN deleted} : i >= 0},
          {})

\* the interfaces of the created cells, in the same way
CreatedInterfacesEvent(P, created) ==
    Event("CREATION", "INTERFACE", {},
          {i \in UNION {CellInterfaces(P.cells[created[k]]) :
                           k \in DOMAIN created} : i >= 0})

\* a variant of TranslateCurrent that leaves the tree ids in the events
KeepTreeIds(events, P) == events

\* the tree ids stored as current ids of the cell events become the ids of
\* the cells of the patch P; the cells received are then sorted by position
TranslateCurrent(events, P) ==
    [e \in DOMAIN events |->
        IF events[e].entity # "CELL" THEN events[e]
        ELSE LET cellIds == [k \in DOMAIN events[e].current |->
                                P.octantToCell[events[e].current[k]]]
             IN  [events[e] EXCEPT
                    !.current = IF events[e].type = "PARTITION_RECV"
                                THEN SortedByPosition(cellIds, CellCentroids(P))
                                ELSE cellIds]]

\* the scan of the octants and the list of the cells to delete
SyncScan(P, T, M, lastOp, track) ==
    LET S == [importAll         |-> getCellCount(P) = 0,
              lastTreeOperation |-> lastOp,
              nOctants          |-> Len(T),
              nPreviousOctants  |-> Cardinality(DOMAIN P.octantToCell),
              mapping           |-> M,
              octantToCell      |-> P.octantToCell,
              track             |-> track]
        scan == ScanOctants(S, 0, EmptyScan)
    IN  [scan EXCEPT !.deleted = @ \o UnmappedDeleted(S, scan)]

\* sync throws: after an unmapped adaption of a non-empty patch, or on the
\* look-up of a cell or octant that the maps or the tree do not hold
SyncThrowsUnmapped(P, lastOp) ==
    lastOp = "OP_ADAPTION_UNMAPPED" /\ getCellCount(P) # 0

SyncThrowsOutOfRange(P, T, M, lastOp, track) ==
    LET scan == SyncScan(P, T, M, lastOp, track)
    IN  \/ ResetMapsThrows(P, scan.deleted, scan.renumbered)
        \/ \E k \in DOMAIN scan.added : scan.added[k] >= Len(T)

\* the patch the throw leaves behind: the maps as resetCellOctantMaps had
\* them when the look-up threw
SyncThrown(P, T, M, lastOp, track) ==
    LET scan == SyncScan(P, T, M, lastOp, track)
    IN  resetCellOctantMapsThrown(P, scan.deleted, scan.renumbered)

\* updateAdjacencies divides the number of cells by the depth of the tree
\* (a sync that follows an adaption that changed the tree imports cells)
DividesByZero(T) == getMaxDepth(T) = 0

\* last part of sync: the cell events get the ids of the imported cells and
\* the event of the created interfaces is added; the result holds the patch,
\* the events, and the patch as deleteCells left it
SyncTrack(P, track, scan, removal, import) ==
    [patch       |-> import.patch,
     events      |-> IF ~track THEN <<>>
                     ELSE TranslateCurrent(
                              IF Len(scan.deleted) > 0
                              THEN scan.events \o DeletionEvents(P, scan.deleted)
                                     \o <<RemovedInterfacesEvent(P, scan.deleted)>>
                              ELSE scan.events,
                              import.patch)
                          \o (IF Len(import.created) > 0
                              THEN <<CreatedInterfacesEvent(import.patch, import.created)>>
                              ELSE <<>>),
     afterDelete |-> removal.patch,
     dangling    |-> removal.dangling,
     deleted     |-> {scan.deleted[k].cellId : k \in DOMAIN scan.deleted},
     renumbered  |-> {scan.renumbered[k].cellId : k \in DOMAIN scan.renumbered},
     created     |-> import.created]

\* import of the added octants
SyncImport(P, T, track, scan, removal) ==
    SyncTrack(P, track, scan, removal,
              IF Len(scan.added) > 0
              THEN importCells(removal.patch, T, scan.added, removal.stitch)
              ELSE [patch |-> removal.patch, created |-> <<>>])

\* deletion of the removed cells from the patch with the new maps
SyncDelete(P, T, track, scan, reset) ==
    SyncImport(P, T, track, scan,
               IF Len(scan.deleted) > 0
               THEN deleteCells(reset, T, scan.deleted)
               ELSE [patch |-> reset, stitch |-> <<>>, dangling |-> {}])

\* reset of the cell-octant maps
SyncReset(P, T, track, scan) ==
    SyncDelete(P, T, track, scan,
               resetCellOctantMaps(P, scan.deleted, scan.renumbered, scan.added))

\* a sync that completes
sync(P, T, M, lastOp, track) ==
    SyncReset(P, T, track, SyncScan(P, T, M, lastOp, track))

(***************************************************************************)
(* Geometry of the tree: the size, the face area and the volume of the     *)
(* octants of each level.  A real number is num * Tick^ticks / 2^halvings, *)
(* where Tick is half of the tolerance 1e-14 that scale compares the       *)
(* scaling factors with: products and halvings are exact.                  *)
(***************************************************************************)
Real(num, ticks, halvings) == [num |-> num, ticks |-> ticks, halvings |-> halvings]

RECURSIVE IntPow(_, _)
IntPow(n, k) == IF k <= 0 THEN 1 ELSE n * IntPow(n, k - 1)

\* pow(x, k) for a whole exponent k
pow(x, k) == Real(IntPow(x.num, k), x.ticks * k, x.halvings * k)

\* the product of two real numbers
Times(x, y) == Real(x.num * y.num, x.ticks + y.ticks, x.halvings + y.halvings)

\* classGlobal::getMaxLevel
getMaxLevel == MaxLevel

\* VolOctree::initializeTreeGeometry: the three tables for a tree of the
\* given length, one entry for each i with 0 <= i < maxLevels
initializeTreeGeometry(length) ==
    LET maxLevels == getMaxLevel
        levelLength(i) == Real(length.num, length.ticks, length.halvings + i)
    IN  [dh     |-> [k \in 1 .. maxLevels |-> pow(levelLength(k - 1), 1)],
         area   |-> [k \in 1 .. maxLevels |-> pow(levelLength(k - 1), Dimension - 1)],
         volume |-> [k \in 1 .. maxLevels |-> pow(levelLength(k - 1), Dimension)]]

(***************************************************************************)
(* State.                                                                  *)
(***************************************************************************)
VARIABLES
    tree,               \* m_tree: the leaves in Morton order
    mapping,            \* the mapping table of the last adapt
    lastTreeOperation,  \* m_lastTreeOperation
    cells,              \* m_cells
    vertices,           \* m_vertices
    interfaces,         \* m_interfaces
    cellToOctant,       \* m_cellToOctant
    octantToCell,       \* m_octantToCell
    nextId,             \* the id generators of the three containers
    status,             \* "ok", or the failure that ended the run
    adaptions,          \* number of update_adaption calls so far
    result,             \* what the last update_adaption call did and returned
    probe,              \* one octant handed to the classification of sync
    lastCall,           \* the last call whose returned value the caller kept
    ghosts,             \* the ghost octants of m_tree
    cellToGhost,        \* m_cellToGhost
    treeLength,         \* the length of the tree's domain (getL)
    tree_dh,            \* m_tree_dh
    tree_area,          \* m_tree_area
    tree_volume,        \* m_tree_volume
    vertexScaling,      \* the scalings applied to the coordinates of the vertices
    treeOrigin,         \* the origin of the tree's domain (getOrigin)
    vertexTranslation,  \* the translations applied to the coordinates of the vertices
    buffer,             \* a binary stream
    ranks               \* the patches of the processes of a distributed run

vars == <<tree, mapping, lastTreeOperation, cells, vertices, interfaces,
          cellToOctant, octantToCell, nextId, status, adaptions, result, probe,
          lastCall, ghosts, cellToGhost, treeLength, tree_dh, tree_area,
          tree_volume, vertexScaling, treeOrigin, vertexTranslation, buffer, ranks>>

geometryVars == <<treeLength, tree_dh, tree_area, tree_volume, vertexScaling,
                  treeOrigin, vertexTranslation>>

\* what marking and adaption leave alone
restVars == <<lastCall, ghosts, cellToGhost, geometryVars, buffer, ranks>>

Patch ==
    [cells |-> cells, vertices |-> vertices, interfaces |-> interfaces,
     cellToOctant |-> cellToOctant, octantToCell |-> octantToCell, next |-> nextId]

patchVars == <<cells, vertices, interfaces, cellToOctant, octantToCell, nextId>>

SetPatch(P) ==
    /\ cells' = P.cells
    /\ vertices' = P.vertices
    /\ interfaces' = P.interfaces
    /\ cellToOctant' = P.cellToOctant
    /\ octantToCell' = P.octantToCell
    /\ nextId' = P.next

NoResult ==
    [outcome |-> "none", track |-> FALSE, buildMapping |-> FALSE, events |-> <<>>,
     afterDelete |-> EmptyPatch, dangling |-> {},
     deleted |-> {}, renumbered |-> {}, created |-> <<>>]

\* initial refinement levels the constructor may ask for: ceil(log2(max(1, length/dh)))
InitialLevels == {l \in 0 .. MaxLevel : Pow2(Dimension * l) <= MaxOctants}

NoProbe ==
    [importAll |-> FALSE, lastTreeOperation |-> "OP_INITIALIZATION", treeId |-> 0,
     mapping |-> NoMapping, type |-> "unset"]

\* VolOctree::VolOctree: a root octant marked for the initial refinement,
\* an empty patch
NoCall == [operation |-> "none"]

\* the tree has its origin at zero and the given length, the tables are
\* those of the length, and the vertices have not been moved
TreeGeometry(length) ==
    /\ treeOrigin = <<0, 0, 0>>
    /\ vertexTranslation = <<>>
    /\ treeLength = length
    /\ tree_dh = initializeTreeGeometry(length).dh
    /\ tree_area = initializeTreeGeometry(length).area
    /\ tree_volume = initializeTreeGeometry(length).volume

ConstructedWith(levels, lengths) ==
    /\ \E initial_level \in levels :
          tree = <<Octant(0, 0, 0, initial_level, FALSE)>>
    /\ \E length \in lengths : TreeGeometry(Real(length, 0, 0))
    /\ vertexScaling = <<>>
    /\ lastCall = NoCall
    /\ ghosts = <<>>
    /\ cellToGhost = <<>>
    /\ buffer = <<>>
    /\ ranks = <<>>
    /\ mapping = <<>>
    /\ lastTreeOperation = "OP_INITIALIZATION"
    /\ cells = <<>>
    /\ vertices = <<>>
    /\ interfaces = <<>>
    /\ cellToOctant = <<>>
    /\ octantToCell = <<>>
    /\ nextId = EmptyPatch.next
    /\ status = "ok"
    /\ adaptions = 0
    /\ result = NoResult

Constructed == ConstructedWith(InitialLevels, {1})

Init == Constructed /\ probe = NoProbe

(***************************************************************************)
(* Operations.                                                             *)
(***************************************************************************)
nMarked(T) == Cardinality({i \in DOMAIN T : T[i].marker # 0})

nMarkedForRefinement(T) == Cardinality({i \in DOMAIN T : T[i].marker > 0})

\* VolOctree::getCellOctant
getCellOctant(id) ==
    [internal |-> cells[id].interior,
     id |-> IF cells[id].interior THEN cellToOctant[id] ELSE cellToGhost[id]]

\* a variant of set_marker that does not look at the ownership of the cell
set_marker_unchecked(id, value) ==
    [returned |-> TRUE,
     tree |-> [i \in DOMAIN tree |->
                 IF i = getCellOctant(id).id + 1 THEN [tree[i] EXCEPT !.marker = value]
                 ELSE tree[i]]]

\* VolOctree::set_marker: the value it returns and the tree it leaves
set_marker(id, value) ==
    LET octantInfo == getCellOctant(id)
    IN  IF ~octantInfo.internal
        THEN [returned |-> FALSE, tree |-> tree]
        ELSE [returned |-> TRUE,
              tree |-> [tree EXCEPT ![octantInfo.id + 1].marker = value]]

\* VolOctree::_enableCellBalancing: the value it returns and the tree it leaves
enableCellBalancing(id, enabled) ==
    LET octantInfo == getCellOctant(id)
    IN  IF ~octantInfo.internal
        THEN [returned |-> FALSE, tree |-> tree]
        ELSE [returned |-> TRUE,
              tree |-> [tree EXCEPT ![octantInfo.id + 1].balance = enabled]]

\* a caller marks a cell and drops the returned value; the marker changes and
\* the markers stay within the given bounds
MarkCell(id, value, maxMarked, maxOctants) ==
    /\ status = "ok"
    /\ id \in DOMAIN cells
    /\ id \in DOMAIN cellToOctant
    /\ cellToOctant[id] + 1 \in DOMAIN tree
    /\ LET t == cellToOctant[id] + 1
           T == set_marker(id, value).tree
       IN  /\ T # tree
           /\ nMarked(T) <= maxMarked
           /\ value > 0 => /\ tree[t].level < MaxLevel
                           /\ Len(T) + (nChildren - 1) * nMarkedForRefinement(T) <= maxOctants
           /\ tree' = T
    /\ UNCHANGED <<mapping, lastTreeOperation, patchVars, status, adaptions, result, probe, restVars>>

markCellForRefinement == \E id \in DOMAIN cells : MarkCell(id, 1, MaxMarked, MaxOctants)

markCellForCoarsening == \E id \in DOMAIN cells : MarkCell(id, -1, MaxMarked, MaxOctants)

\* a variant of ReturnsEarly that always goes on to the sync
NeverReturnsEarly(updated) == FALSE

\* _updateAdaption returns before the sync when adapt changed nothing
ReturnsEarly(updated) == ~updated

\* the patch and the return value of a sync that completed
Synced(call, done) ==
    /\ SetPatch(done.patch)
    /\ result' = [call EXCEPT !.outcome = "synced",
                              !.events = done.events,
                              !.afterDelete = done.afterDelete,
                              !.dangling = done.dangling,
                              !.deleted = done.deleted,
                              !.renumbered = done.renumbered,
                              !.created = done.created]

\* VolOctree::_updateAdaption
updateAdaption(trackAdaption) ==
    /\ status = "ok"
    /\ adaptions < MaxAdaptions
    /\ adaptions' = adaptions + 1
    /\ UNCHANGED <<probe, restVars>>
    /\ LET buildMapping == getCellCount(Patch) # 0
           updated      == AdaptUpdated(tree)
           T            == AdaptTree(tree)
           M            == AdaptMapping(tree)
           lastOp       == IF trackAdaption THEN "OP_ADAPTION_MAPPED"
                           ELSE "OP_ADAPTION_UNMAPPED"
           call         == [NoResult EXCEPT !.track = trackAdaption,
                                            !.buildMapping = buildMapping]
       IN  /\ tree' = T
           /\ mapping' = IF buildMapping THEN M ELSE <<>>
           /\ lastTreeOperation' = lastOp
           /\ IF ReturnsEarly(updated)
              THEN /\ result' = [call EXCEPT !.outcome = "unchanged"]
                   /\ UNCHANGED <<patchVars, status>>
              ELSE IF SyncThrowsUnmapped(Patch, lastOp)
              THEN /\ result' = [call EXCEPT !.outcome = "unmapped"]
                   /\ status' = "failed"
                   /\ UNCHANGED patchVars
              ELSE IF SyncThrowsOutOfRange(Patch, T, M, lastOp, trackAdaption)
              THEN /\ result' = [call EXCEPT !.outcome = "out_of_range"]
                   /\ status' = "failed"
                   /\ SetPatch(SyncThrown(Patch, T, M, lastOp, trackAdaption))
              ELSE \E fault \in BOOLEAN :
                   /\ fault => DividesByZero(T)
                   /\ IF fault
                      THEN /\ result' = [call EXCEPT !.outcome = "arithmetic_fault"]
                           /\ status' = "failed"
                           /\ UNCHANGED patchVars
                      ELSE /\ Synced(call, sync(Patch, T, M, lastOp, trackAdaption))
                           /\ UNCHANGED status

Next ==
    \/ markCellForRefinement
    \/ markCellForCoarsening
    \/ \E trackAdaption \in BOOLEAN : updateAdaption(trackAdaption)

Spec == Init /\ [][Next]_vars

(***************************************************************************)
(* The round trip: every cell of the patch is marked for refinement or for *)
(* coarsening by a loop of the caller, then the patch is updated.          *)
(***************************************************************************)
\* the tree is the uniform tree of level l
UniformTree(T, l) ==
    /\ Len(T) = Pow2(Dimension * l)
    /\ \A i \in DOMAIN T : T[i].level = l

\* _markCellForRefinement or _markCellForCoarsening called on every cell
markEveryCell(value) ==
    /\ status = "ok"
    /\ DOMAIN cells # {}
    /\ \A id \in DOMAIN cells : id \in DOMAIN cellToOctant
    /\ \E id \in DOMAIN cells : tree[cellToOctant[id] + 1].marker # value
    /\ value > 0 => \E l \in 0 .. (MaxUniformLevel - 1) : UniformTree(tree, l)
    /\ tree' = [i \in DOMAIN tree |->
                   IF \E id \in DOMAIN cells : cellToOctant[id] = i - 1
                   THEN [tree[i] EXCEPT !.marker = value]
                   ELSE tree[i]]
    /\ UNCHANGED <<mapping, lastTreeOperation, patchVars, status, adaptions, result, probe, restVars>>

markEveryCellForRefinement == markEveryCell(1)

markEveryCellForCoarsening == markEveryCell(-1)

InitRoundTrip == ConstructedWith(0 .. MaxUniformLevel, {1}) /\ probe = NoProbe

NextRoundTrip ==
    \/ markEveryCellForRefinement
    \/ markEveryCellForCoarsening
    \/ \E trackAdaption \in BOOLEAN : updateAdaption(trackAdaption)

SpecRoundTrip == InitRoundTrip /\ [][NextRoundTrip]_vars

(***************************************************************************)
(* Balancing: cells are refined one at a time in a tree that may grow      *)
(* deeper, and balancing is enabled or disabled on single cells.           *)
(***************************************************************************)
nBalanced(T) == Cardinality({i \in DOMAIN T : T[i].balance})

markDeepCellForRefinement ==
    \E id \in DOMAIN cells :
        /\ id \in DOMAIN cellToOctant
        /\ \A i \in DOMAIN tree : tree[i].level <= tree[cellToOctant[id] + 1].level
        /\ MarkCell(id, 1, MaxDeepMarked, MaxDeepOctants)

\* a caller enables or disables the balancing of a cell and drops the
\* returned value
setCellBalancing ==
    \E id \in DOMAIN cells, enabled \in BOOLEAN :
        /\ status = "ok"
        /\ id \in DOMAIN cellToOctant
        /\ cellToOctant[id] + 1 \in DOMAIN tree
        /\ enableCellBalancing(id, enabled).tree # tree
        /\ enabled => nBalanced(tree) < MaxBalanced
        /\ Len(tree) <= MaxOctants
        /\ tree' = enableCellBalancing(id, enabled).tree
        /\ UNCHANGED <<mapping, lastTreeOperation, patchVars, status, adaptions,
                       result, probe, restVars>>

NextBalance ==
    \/ markDeepCellForRefinement
    \/ setCellBalancing
    \/ \E trackAdaption \in BOOLEAN : updateAdaption(trackAdaption)

InitBalance == ConstructedWith({1}, {1}) /\ probe = NoProbe

SpecBalance == InitBalance /\ [][NextBalance]_vars

(***************************************************************************)
(* Patches the program builds, as the starting points of the calls below.  *)
(***************************************************************************)
\* the tree and the patch S after a tracked update_adaption
Updated(S) ==
    LET T == AdaptTree(S.tree)
        M == IF getCellCount(S.patch) # 0 THEN AdaptMapping(S.tree) ELSE <<>>
    IN  IF ReturnsEarly(AdaptUpdated(S.tree))
        THEN [tree |-> T, outcome |-> "unchanged", patch |-> S.patch]
        ELSE IF SyncThrowsOutOfRange(S.patch, T, M, "OP_ADAPTION_MAPPED", TRUE)
        THEN [tree |-> T, outcome |-> "out_of_range",
              patch |-> SyncThrown(S.patch, T, M, "OP_ADAPTION_MAPPED", TRUE)]
        \* the division by the depth of the tree is undefined
        ELSE IF DividesByZero(T)
        THEN [tree |-> T, outcome |-> "undefined", patch |-> S.patch]
        ELSE [tree |-> T, outcome |-> "synced",
              patch |-> sync(S.patch, T, M, "OP_ADAPTION_MAPPED", TRUE).patch]

Imported(initial_level) ==
    Updated([tree |-> <<Octant(0, 0, 0, initial_level, FALSE)>>, patch |-> EmptyPatch])

\* S after the octant at tree index t is refined
Refined(S, t) ==
    Updated([tree |-> [S.tree EXCEPT ![t + 1].marker = 1], patch |-> S.patch])

\* S after its first octant is refined n times over
RECURSIVE RefinedTimes(_, _)
RefinedTimes(S, n) == IF n <= 0 THEN S ELSE RefinedTimes(Refined(S, 0), n - 1)

(***************************************************************************)
(* Geometry: a patch whose first cell was refined some levels deep is      *)
(* scaled and asked for the sizes of its cells and interfaces.             *)
(***************************************************************************)
Abs(x) == IF x < 0 THEN -x ELSE x

\* scaling factors, in ticks: 10 and 11 agree within the tolerance, 14
\* differs from both by more
ScaleFactors == {10, 11, 14}

\* translation vectors
Translations == {<<1, 0, 0>>, <<0, -1, 0>>}

InitGeometry ==
    \E n \in 0 .. (MaxLevel - 1), length \in 1 .. MaxLength :
        \E S \in {RefinedTimes(Imported(1), n)} :
            /\ S.outcome = "synced"
            /\ tree = S.tree
            /\ cells = S.patch.cells
            /\ vertices = S.patch.vertices
            /\ interfaces = S.patch.interfaces
            /\ cellToOctant = S.patch.cellToOctant
            /\ octantToCell = S.patch.octantToCell
            /\ nextId = S.patch.next
            /\ mapping = <<>>
            /\ lastTreeOperation = "OP_ADAPTION_MAPPED"
            /\ status = "ok"
            /\ adaptions = n + 1
            /\ result = NoResult
            /\ probe = NoProbe
            /\ TreeGeometry(Real(length, 0, 0))
            /\ vertexScaling = <<>>
            /\ lastCall = NoCall
            /\ ghosts = <<>>
            /\ cellToGhost = <<>>
            /\ buffer = <<>>
            /\ ranks = <<>>

\* std::abs(a - b) > 1e-14 for two factors given in ticks.  The doubles of
\* two factors that are the tolerance apart in ticks differ by the tolerance
\* up to their rounding, which decides the comparison: either answer
Exceeds(a, b) ==
    IF Abs(a - b) = Tolerance THEN BOOLEAN ELSE {Abs(a - b) > Tolerance}

\* VolOctree::translate: the origin of the tree and every vertex are moved
translate(translation) ==
    /\ status = "ok"
    /\ Len(vertexTranslation) < MaxTranslations
    /\ treeOrigin' = [i \in 1 .. 3 |-> treeOrigin[i] + translation[i]]
    /\ vertexTranslation' = Append(vertexTranslation, translation)
    /\ lastCall' = [operation |-> "translate", translation |-> translation]
    /\ UNCHANGED <<treeLength, tree_dh, tree_area, tree_volume, vertexScaling>>
    /\ UNCHANGED <<tree, mapping, lastTreeOperation, patchVars, status, adaptions, result,
                   probe, ghosts, cellToGhost, buffer, ranks>>

\* VolOctree::scale.  The test of the factors holds when the first factor
\* differs from both others by more than the tolerance; when it fails, a
\* build with assertions stops at the assert and any other build returns.
scale(scaling) ==
    \E first \in Exceeds(scaling[1], scaling[2]), second \in Exceeds(scaling[1], scaling[3]) :
    LET uniformScaling == first /\ second
        length == Times(treeLength, Real(scaling[1], 1, 0))
    IN  /\ status = "ok"
        /\ treeLength.ticks < MaxScalings
        /\ lastCall' = [operation |-> "scale", scaling |-> scaling]
        /\ IF ~uniformScaling
           THEN /\ status' \in {"ok", "failed"}
                /\ UNCHANGED geometryVars
           ELSE /\ treeLength' = length
                /\ tree_dh' = initializeTreeGeometry(length).dh
                /\ tree_area' = initializeTreeGeometry(length).area
                /\ tree_volume' = initializeTreeGeometry(length).volume
                /\ vertexScaling' = Append(vertexScaling, scaling)
                /\ UNCHANGED <<status, treeOrigin, vertexTranslation>>
        /\ UNCHANGED <<tree, mapping, lastTreeOperation, patchVars, adaptions, result,
                       probe, ghosts, cellToGhost, buffer, ranks>>

\* values of a double the program has not determined: whatever the memory
\* holds, an entry of a table or not
UnspecifiedReals ==
    {Real(0, 0, 0), Real(1, 0, 0), Real(-1, 0, 0), Real(3, 1, 2), Real(-5, 0, 1)}

\* std::vector::operator[]: a read past the end of the table is undefined;
\* it may fault or give any value
ReadTable(table, level) ==
    IF level + 1 \in DOMAIN table
    THEN {[fault |-> FALSE, value |-> table[level + 1]]}
    ELSE {[fault |-> TRUE, value |-> Real(0, 0, 0)]}
            \cup {[fault |-> FALSE, value |-> v] : v \in Range(table) \cup UnspecifiedReals}

\* the caller keeps what the table gave for an element of the given level
Evaluated(operation, id, level, table) ==
    /\ status = "ok"
    /\ \E read \in ReadTable(table, level) :
          /\ lastCall' = [operation |-> operation, id |-> id, level |-> level,
                          fault |-> read.fault, value |-> read.value]
          /\ status' = IF read.fault THEN "failed" ELSE "ok"
    /\ UNCHANGED <<tree, mapping, lastTreeOperation, patchVars, adaptions, result,
                   probe, ghosts, cellToGhost, geometryVars, buffer, ranks>>

\* VolOctree::evalCellVolume
evalCellVolume ==
    \E id \in DOMAIN cells :
        Evaluated("evalCellVolume", id, getCellLevel(tree, ghosts, getCellOctant(id)), tree_volume)

\* VolOctree::evalCellSize
evalCellSize ==
    \E id \in DOMAIN cells :
        Evaluated("evalCellSize", id, getCellLevel(tree, ghosts, getCellOctant(id)), tree_dh)

\* VolOctree::evalInterfaceArea: the id of the owner is kept in an int
evalInterfaceArea ==
    \E id \in DOMAIN interfaces :
        LET owner == ToInt(interfaces[id].owner)
        IN  /\ owner \in DOMAIN cells
            /\ Evaluated("evalInterfaceArea", id,
                         getCellLevel(tree, ghosts, getCellOctant(owner)), tree_area)

NextGeometry ==
    \/ \E scaling \in [1 .. 3 -> ScaleFactors] : scale(scaling)
    \/ \E translation \in Translations : translate(translation)
    \/ evalCellVolume
    \/ evalCellSize
    \/ evalInterfaceArea

SpecGeometry == InitGeometry /\ [][NextGeometry]_vars

(***************************************************************************)
(* Neighbour queries on a patch the program built.                         *)
(***************************************************************************)
\* the octree's neighbour search for a vertex: the octants other than t that
\* cover the corner of the grid lying diagonally across vertex v of octant t
findNodeNeighbours(T, t, v) ==
    LET o  == T[t + 1]
        ux == IF v % 2 = 1 THEN o.x + OctSize(o) ELSE o.x - 1
        uy == IF v \div 2 = 1 THEN o.y + OctSize(o) ELSE o.y - 1
    IN  SortedSeq({j \in 0 .. (Len(T) - 1) :
                     /\ j # t
                     /\ T[j + 1].x <= ux /\ ux < T[j + 1].x + OctSize(T[j + 1])
                     /\ T[j + 1].y <= uy /\ uy < T[j + 1].y + OctSize(T[j + 1])})

\* utils::addToOrderedVector: the value is put at its lower bound unless it
\* is there already
addToOrderedVector(value, list) ==
    LET after == {i \in DOMAIN list : list[i] >= value}
        lower == IF after = {} THEN Len(list) + 1 ELSE Min(after)
    IN  IF lower <= Len(list) /\ list[lower] = value THEN list
        ELSE SubSeq(list, 1, lower - 1) \o <<value>> \o SubSeq(list, lower, Len(list))

\* the loops that add the values one by one
RECURSIVE addAllToOrderedVector(_, _)
addAllToOrderedVector(values, list) ==
    IF values = <<>> THEN list
    ELSE addAllToOrderedVector(Tail(values), addToOrderedVector(Head(values), list))

\* the face neighbours of a cell: the adjacencies of the face that are not
\* in the black list
findCellFaceNeighs(id, face, blackList) ==
    SelectSeq(cells[id].adjacencies[face + 1], LAMBDA n : n >= 0 /\ n \notin blackList)

\* VolOctree::isThreeDimensional
isThreeDimensional == Dimension = 3

\* m_ghostToCell: the ghost octant of each ghost cell, the other way round
ghostToCell ==
    [g \in Range(cellToGhost) |-> CHOOSE c \in DOMAIN cellToGhost : cellToGhost[c] = g]

\* VolOctree::getOctantId(OctantInfo): the id of the cell of an internal or
\* of a ghost octant, NULL_ID when the map has no entry
getOctantInfoId(octantInfo) ==
    IF octantInfo.internal THEN getOctantId(octantToCell, octantInfo.id)
    ELSE getOctantId(ghostToCell, octantInfo.id)

\* ParaTree::findNeighbours and ParaTree::findGhostNeighbours: the tree ids
\* and the ghost flags of the neighbours of an internal or of a ghost octant
\* across the entity of the given index and codimension, looked for among
\* the internal octants T and the ghost octants G.  A tree of squares has
\* faces (codimension 1) and nodes (codimension 2) and no edges
findOctantNeighbours(T, G, octantInfo, index, codimension) ==
    LET all   == T \o G
        t     == IF octantInfo.internal THEN octantInfo.id ELSE Len(T) + octantInfo.id
        found == IF codimension = 1 THEN findNeighbours(all, t, index)
                 ELSE IF codimension = Dimension THEN findNodeNeighbours(all, t, index)
                 ELSE <<>>
    IN  [i \in DOMAIN found |->
            [id    |-> IF found[i] < Len(T) THEN found[i] ELSE found[i] - Len(T),
             ghost |-> found[i] >= Len(T)]]

\* VolOctree::findCellCodimensionNeighs
findCellCodimensionNeighs(id, index, codimension, blackList) ==
    IF codimension > Dimension \/ codimension <= 0 THEN <<>>
    ELSE LET octantInfo == getCellOctant(id)
             neighs     == findOctantNeighbours(tree, ghosts, octantInfo, index, codimension)
             neighIds   == [i \in DOMAIN neighs |->
                               getOctantInfoId([internal |-> ~neighs[i].ghost,
                                                id       |-> neighs[i].id])]
         IN  addAllToOrderedVector(SelectSeq(neighIds, LAMBDA n : n \notin blackList),
                                   <<>>)

\* the face neighbours across the listed faces, one face after the other
FaceNeighsOf(id, faces, blackList) ==
    Flatten([k \in DOMAIN faces |-> findCellFaceNeighs(id, faces[k], blackList)])

\* VolOctree::_findCellEdgeNeighs past its test of the dimension: the edge
\* neighbours of the tree, then the face neighbours of the faces on the edge
EdgeNeighsOf(id, edge, blackList) ==
    addAllToOrderedVector(
        FaceNeighsOf(id, octantLocalFacesOnEdge3D[edge + 1], blackList),
        findCellCodimensionNeighs(id, edge, Dimension - 1, blackList))

\* VolOctree::_findCellEdgeNeighs, the outcomes of the call: on a patch that
\* is not three-dimensional a build with assertions stops at the assert and
\* any other build returns no neighbour
findCellEdgeNeighs(id, edge, blackList) ==
    IF ~isThreeDimensional
    THEN {[fault |-> TRUE, returned |-> <<>>], [fault |-> FALSE, returned |-> <<>>]}
    ELSE {[fault |-> FALSE, returned |-> EdgeNeighsOf(id, edge, blackList)]}

\* VolOctree::_findCellVertexNeighs: the vertex neighbours of the tree, then
\* the neighbours of the edges on the vertex (three dimensions) or of the
\* faces on the vertex (two dimensions)
findCellVertexNeighs(id, vertex, blackList) ==
    LET vertexNeighs == findCellCodimensionNeighs(id, vertex, Dimension, blackList)
        edges        == octantLocalEdgesOnVertex3D[vertex + 1]
    IN  IF isThreeDimensional
        THEN addAllToOrderedVector(
                 Flatten([k \in DOMAIN edges |-> EdgeNeighsOf(id, edges[k], blackList)]),
                 vertexNeighs)
        ELSE addAllToOrderedVector(
                 FaceNeighsOf(id, octantLocalFacesOnVertex[vertex + 1], blackList),
                 vertexNeighs)

\* the patch of a process that owns the octants first .. last of the
\* uniform tree of level 1 and holds the cells of the other octants as ghosts
HoldsRange(first, last) ==
    \E S \in {Imported(1)} :
    LET nOwned == last - first + 1
        owned(c) == S.patch.cellToOctant[c] \in first .. last
    IN  /\ S.outcome = "synced"
        /\ tree = SubSeq(S.tree, first + 1, last + 1)
        /\ ghosts = SubSeq(S.tree, 1, first) \o SubSeq(S.tree, last + 2, nChildren)
        /\ cells = [c \in DOMAIN S.patch.cells |->
                       [S.patch.cells[c] EXCEPT !.interior = owned(c)]]
        /\ cellToOctant = [c \in {x \in DOMAIN S.patch.cells : owned(x)} |->
                              S.patch.cellToOctant[c] - first]
        /\ cellToGhost = [c \in {x \in DOMAIN S.patch.cells : ~owned(x)} |->
                             IF S.patch.cellToOctant[c] < first
                             THEN S.patch.cellToOctant[c]
                             ELSE S.patch.cellToOctant[c] - nOwned]
        /\ octantToCell = [t \in 0 .. (nOwned - 1) |-> S.patch.octantToCell[t + first]]
        /\ vertices = S.patch.vertices
        /\ interfaces = S.patch.interfaces
        /\ nextId = S.patch.next

\* the patch of a process that owns the whole tree, uniform or with one cell
\* refined, or a range of the uniform tree with the rest as ghosts
InitNeighs ==
    /\ \/ \E t \in 0 .. (nChildren - 1), n \in 0 .. 1 :
             \E S \in {IF n = 0 THEN Imported(1) ELSE Refined(Imported(1), t)} :
                 /\ S.outcome = "synced"
                 /\ tree = S.tree
                 /\ cells = S.patch.cells
                 /\ vertices = S.patch.vertices
                 /\ interfaces = S.patch.interfaces
                 /\ cellToOctant = S.patch.cellToOctant
                 /\ octantToCell = S.patch.octantToCell
                 /\ nextId = S.patch.next
                 /\ ghosts = <<>>
                 /\ cellToGhost = <<>>
                 /\ adaptions = n + 1
       \/ \E first \in 0 .. (nChildren - 1), last \in 0 .. (nChildren - 1) :
             /\ first <= last
             /\ last - first + 1 < nChildren
             /\ HoldsRange(first, last)
             /\ adaptions = 1
    /\ mapping = <<>>
    /\ lastTreeOperation = "OP_ADAPTION_MAPPED"
    /\ status = "ok"
    /\ result = NoResult
    /\ probe = NoProbe
    /\ TreeGeometry(Real(1, 0, 0))
    /\ vertexScaling = <<>>
    /\ lastCall = NoCall
    /\ buffer = <<>>
    /\ ranks = <<>>

\* black lists of at most two cells
BlackLists == {b \in SUBSET DOMAIN cells : Cardinality(b) <= 2}

\* a caller asks for the neighbours of a cell at a vertex, once in a run: a
\* query changes nothing that a later query reads
askVertexNeighs ==
    \E id \in DOMAIN cells, vertex \in LocalVertices, blackList \in BlackLists :
        /\ status = "ok"
        /\ lastCall = NoCall
        /\ lastCall' = [operation |-> "findCellVertexNeighs", id |-> id,
                        index |-> vertex, blackList |-> blackList, fault |-> FALSE,
                        returned |-> findCellVertexNeighs(id, vertex, blackList)]
        /\ UNCHANGED <<tree, mapping, lastTreeOperation, patchVars, status, adaptions,
                       result, probe, ghosts, cellToGhost, geometryVars, buffer, ranks>>

\* a caller asks for the neighbours of a cell at an edge
askEdgeNeighs ==
    \E id \in DOMAIN cells, edge \in Faces, blackList \in BlackLists :
        \E answer \in findCellEdgeNeighs(id, edge, blackList) :
            /\ status = "ok"
            /\ lastCall = NoCall
            /\ lastCall' = [operation |-> "findCellEdgeNeighs", id |-> id,
                            index |-> edge, blackList |-> blackList,
                            fault |-> answer.fault, returned |-> answer.returned]
            /\ status' = IF answer.fault THEN "failed" ELSE "ok"
            /\ UNCHANGED <<tree, mapping, lastTreeOperation, patchVars, adaptions,
                           result, probe, ghosts, cellToGhost, geometryVars, buffer,
                           ranks>>

NextNeighs == askVertexNeighs \/ askEdgeNeighs

SpecNeighs == InitNeighs /\ [][NextNeighs]_vars

(***************************************************************************)
(* One cell on its own: ids are pushed to and deleted from the runs of its *)
(* faces, then the cell is written to a binary stream and read back into a *)
(* default-constructed cell.  The stream is a sequence of words, each a    *)
(* value held in a number of bytes.                                        *)
(***************************************************************************)
\* Cell::Cell(id, type, interior, storeNeighbourhood) of a PIXEL with its
\* neighbourhood stored, and the default constructor
\* Cell::createNeighbourhoodStorage: no storage at all, or one run of no
\* entries for each face
createNeighbourhoodStorage(type, storeNeighbourhood) ==
    IF ~storeNeighbourhood \/ type = "UNDEFINED" THEN <<>>
    ELSE EmptyRuns

Cell(id, connect) ==
    [type |-> "PIXEL", id |-> id, connect |-> connect, interior |-> TRUE,
     interfaces |-> createNeighbourhoodStorage("PIXEL", TRUE),
     adjacencies |-> createNeighbourhoodStorage("PIXEL", TRUE)]

DefaultCell ==
    [type |-> "UNDEFINED", id |-> NULL_ID, connect |-> <<>>, interior |-> TRUE,
     interfaces |-> <<>>, adjacencies |-> <<>>]

\* the stream output of an Element: shape tag, id, connectivity
ElementWords(cell) ==
    <<[bytes |-> 4, value |-> cell.type], [bytes |-> 8, value |-> cell.id]>>
        \o [k \in DOMAIN cell.connect |-> [bytes |-> 8, value |-> cell.connect[k]]]

\* the stream output of a FlatVector2D: number of slots, the offsets of the
\* slots and the end, the ids
RaggedWords(runs) ==
    <<[bytes |-> 4, value |-> Len(runs)]>>
        \o [k \in 1 .. (Len(runs) + 1) |->
               [bytes |-> 4, value |-> Len(Flatten(SubSeq(runs, 1, k - 1)))]]
        \o [k \in DOMAIN Flatten(runs) |-> [bytes |-> 8, value |-> Flatten(runs)[k]]]

\* the stream input of an Element: the shape tag tells the number of vertices
ReadElement(stream) ==
    LET nVertices == IF stream[1].value = "PIXEL" THEN nCellVertices ELSE 0
    IN  [type    |-> stream[1].value,
         id      |-> stream[2].value,
         connect |-> [k \in 1 .. nVertices |-> stream[2 + k].value],
         rest    |-> SubSeq(stream, 3 + nVertices, Len(stream))]

\* the stream input of a FlatVector2D
ReadRagged(stream) ==
    LET nSlots == stream[1].value
        offset(k) == stream[1 + k].value
        first == 2 + nSlots
    IN  [runs |-> [f \in 1 .. nSlots |->
                     [k \in 1 .. (offset(f + 1) - offset(f)) |->
                        stream[first + offset(f) + k].value]],
         rest |-> SubSeq(stream, first + offset(nSlots + 1) + 1, Len(stream))]

\* operator<< of Cell
StreamOut(stream, cell) ==
    stream \o ElementWords(cell) \o RaggedWords(cell.interfaces)
           \o RaggedWords(cell.adjacencies)

\* a variant of StreamIn that reads the adjacencies before the interfaces
StreamInAdjacenciesFirst(stream, cell) ==
    [cell   |-> [type |-> ReadElement(stream).type, id |-> ReadElement(stream).id,
                 connect |-> ReadElement(stream).connect, interior |-> cell.interior,
                 adjacencies |-> ReadRagged(ReadElement(stream).rest).runs,
                 interfaces |->
                     ReadRagged(ReadRagged(ReadElement(stream).rest).rest).runs],
     stream |-> ReadRagged(ReadRagged(ReadElement(stream).rest).rest).rest]

\* operator>> of Cell: the cell read and what is left of the stream
StreamIn(stream, cell) ==
    [cell   |-> [type |-> ReadElement(stream).type, id |-> ReadElement(stream).id,
                 connect |-> ReadElement(stream).connect, interior |-> cell.interior,
                 interfaces |-> ReadRagged(ReadElement(stream).rest).runs,
                 adjacencies |->
                     ReadRagged(ReadRagged(ReadElement(stream).rest).rest).runs],
     stream |-> ReadRagged(ReadRagged(ReadElement(stream).rest).rest).rest]

\* the binary size of a FlatVector2D
RaggedBinarySize(runs) == 4 + 4 * (Len(runs) + 1) + 8 * Len(Flatten(runs))

\* Cell::getBinarySize, with Element::getBinarySize for its first term
getBinarySize(cell) ==
    (4 + 8 + 8 * Len(cell.connect)) + RaggedBinarySize(cell.interfaces)
        + RaggedBinarySize(cell.adjacencies)

\* ids pushed to the runs: one an int holds, one past the largest int, one
\* that an int holds as the first
PushIds == {1, Pow2(IntBits - 1), Pow2(IntBits) + 1}

nItems(cell) == Len(Flatten(cell.interfaces)) + Len(Flatten(cell.adjacencies))

InitCell ==
    /\ ConstructedWith({0}, {1})
    /\ probe = NoProbe

\* the cell is created, or changed, while no stream holds it
CellChanges(cell) ==
    /\ status = "ok"
    /\ buffer = <<>>
    /\ 1 \notin DOMAIN cells
    /\ cells' = (0 :> cell)
    /\ UNCHANGED <<tree, mapping, lastTreeOperation, vertices, interfaces, cellToOctant,
                   octantToCell, nextId, status, adaptions, result, probe, restVars>>

createCell ==
    /\ cells = <<>>
    /\ \E id \in {3, Pow2(IntBits) + 3} : CellChanges(Cell(id, <<0, 1, 2, 3>>))

\* Cell::pushAdjacency and Cell::pushInterface
pushCellAdjacency ==
    \E face \in Faces, id \in PushIds :
        /\ 0 \in DOMAIN cells
        /\ nItems(cells[0]) < MaxItems
        /\ CellChanges([cells[0] EXCEPT !.adjacencies[face + 1] = pushAdjacency(@, id)])

pushCellInterface ==
    \E face \in Faces, id \in PushIds :
        /\ 0 \in DOMAIN cells
        /\ nItems(cells[0]) < MaxItems
        /\ CellChanges([cells[0] EXCEPT !.interfaces[face + 1] = pushInterface(@, id)])

\* Cell::deleteAdjacency and Cell::deleteInterface
deleteCellAdjacency ==
    \E face \in Faces, i \in 0 .. (MaxItems - 1) :
        /\ 0 \in DOMAIN cells
        /\ i < Len(cells[0].adjacencies[face + 1])
        /\ CellChanges([cells[0] EXCEPT !.adjacencies[face + 1] = deleteAdjacency(@, i)])

deleteCellInterface ==
    \E face \in Faces, i \in 0 .. (MaxItems - 1) :
        /\ 0 \in DOMAIN cells
        /\ i < Len(cells[0].interfaces[face + 1])
        /\ CellChanges([cells[0] EXCEPT !.interfaces[face + 1] = deleteInterface(@, i)])

\* buffer << cell, with the size the caller asked the cell for
writeCell ==
    /\ 0 \in DOMAIN cells
    /\ 1 \notin DOMAIN cells
    /\ buffer = <<>>
    /\ buffer' = StreamOut(buffer, cells[0])
    /\ lastCall' = [operation |-> "getBinarySize", returned |-> getBinarySize(cells[0])]
    /\ UNCHANGED <<tree, mapping, lastTreeOperation, patchVars, status, adaptions, result,
                   probe, ghosts, cellToGhost, geometryVars, ranks>>

\* buffer >> cell, into a default-constructed cell
readCell ==
    /\ buffer # <<>>
    /\ cells' = (1 :> StreamIn(buffer, DefaultCell).cell) @@ cells
    /\ buffer' = StreamIn(buffer, DefaultCell).stream
    /\ UNCHANGED <<tree, mapping, lastTreeOperation, vertices, interfaces, cellToOctant,
                   octantToCell, nextId, status, adaptions, result, probe, lastCall,
                   ghosts, cellToGhost, geometryVars, ranks>>

NextCell ==
    \/ createCell
    \/ pushCellAdjacency
    \/ pushCellInterface
    \/ deleteCellAdjacency
    \/ deleteCellInterface
    \/ writeCell
    \/ readCell

SpecCell == InitCell /\ [][NextCell]_vars

(***************************************************************************)
(* The neighbourhood storage of one cell: the runs are reset, with or      *)
(* without storage, entries are pushed and deleted, and the first entry of *)
(* a face is asked for.                                                    *)
(***************************************************************************)
StoresInterfaces == 0 \in DOMAIN cells /\ cells[0].interfaces # <<>>

StoresAdjacencies == 0 \in DOMAIN cells /\ cells[0].adjacencies # <<>>

\* Cell::resetInterfaces and Cell::resetAdjacencies
resetCellInterfaces(storeInterfaces) ==
    /\ 0 \in DOMAIN cells
    /\ CellChanges([cells[0] EXCEPT
           !.interfaces = createNeighbourhoodStorage(cells[0].type, storeInterfaces)])

resetCellAdjacencies(storeAdjacencies) ==
    /\ 0 \in DOMAIN cells
    /\ CellChanges([cells[0] EXCEPT
           !.adjacencies = createNeighbourhoodStorage(cells[0].type, storeAdjacencies)])

\* Cell::initialize(id, type, connectStorage, interior, storeNeighbourhood)
\* of a PIXEL: the element and the interior flag are set anew and both
\* storages are reset
initializeCell(id, interior, storeNeighbourhood) ==
    /\ 0 \in DOMAIN cells
    /\ CellChanges([type |-> "PIXEL", id |-> id, connect |-> <<0, 1, 2, 3>>,
                    interior |-> interior,
                    interfaces |-> createNeighbourhoodStorage("PIXEL", storeNeighbourhood),
                    adjacencies |-> createNeighbourhoodStorage("PIXEL", storeNeighbourhood)])

\* the cells the cell is swapped with: a ghost PIXEL, and a cell the default
\* constructor made
OtherCells == {[Cell(9, <<4, 5, 6, 7>>) EXCEPT !.interior = FALSE], DefaultCell}

\* Cell::swap: the two cells exchange the element, the interior flag and
\* both storages
swapCell ==
    \E other \in OtherCells :
        /\ status = "ok"
        /\ 0 \in DOMAIN cells
        /\ 1 \notin DOMAIN cells
        /\ buffer = <<>>
        /\ cells' = (0 :> other) @@ (1 :> cells[0])
        /\ UNCHANGED <<tree, mapping, lastTreeOperation, vertices, interfaces, cellToOctant,
                       octantToCell, nextId, status, adaptions, result, probe, restVars>>

\* what a read of an entry the run does not hold can give
UnwrittenIds == {NULL_ID} \cup PushIds

\* FlatVector2D::getItem: the entry of the given index of the run of a face.
\* The index is not checked against the length of the run: a read of an
\* entry the run does not hold is undefined, it may stop the program or give
\* any value
getItem(runs, face, index) ==
    IF index < Len(runs[face + 1])
    THEN {[fault |-> FALSE, value |-> runs[face + 1][index + 1]]}
    ELSE {[fault |-> TRUE, value |-> NULL_ID]}
            \cup {[fault |-> FALSE, value |-> v] : v \in UnwrittenIds}

\* FlatVector2D::setItem: the entry of the given index of the run of a face
\* is overwritten.  Neither the face nor the index is checked: a write to
\* an entry the storage does not hold is undefined, it may stop the program,
\* leave the runs as they are or overwrite any of their entries
setItem(runs, face, index, value) ==
    IF face + 1 \in DOMAIN runs /\ index < Len(runs[face + 1])
    THEN {[fault |-> FALSE, runs |-> [runs EXCEPT ![face + 1][index + 1] = value]]}
    ELSE {[fault |-> TRUE, runs |-> runs], [fault |-> FALSE, runs |-> runs]}
            \cup UNION {{[fault |-> FALSE, runs |-> [runs EXCEPT ![f][k] = value]] :
                            k \in DOMAIN runs[f]} : f \in DOMAIN runs}

\* the cell is changed by a call that may stop the program
CellWritten(fault, cell) ==
    /\ status = "ok"
    /\ buffer = <<>>
    /\ 1 \notin DOMAIN cells
    /\ cells' = (0 :> cell)
    /\ status' = IF fault THEN "failed" ELSE "ok"
    /\ UNCHANGED <<tree, mapping, lastTreeOperation, vertices, interfaces, cellToOctant,
                   octantToCell, nextId, adaptions, result, probe, restVars>>

\* positions given to the setters of one entry
SetIndices == 0 .. (MaxStoredItems - 1)

\* ids given to the setters of one entry: both are past the largest int
SetIds == {Pow2(IntBits - 1), Pow2(IntBits) + 1}

\* Cell::setAdjacency(face, index, adjacency) and
\* Cell::setInterface(face, index, interface)
setCellAdjacency ==
    \E face \in Faces, index \in SetIndices, id \in SetIds :
        /\ 0 \in DOMAIN cells
        /\ \E write \in setItem(cells[0].adjacencies, face, index, id) :
              CellWritten(write.fault, [cells[0] EXCEPT !.adjacencies = write.runs])

setCellInterface ==
    \E face \in Faces, index \in SetIndices, id \in SetIds :
        /\ 0 \in DOMAIN cells
        /\ \E write \in setItem(cells[0].interfaces, face, index, id) :
              CellWritten(write.fault, [cells[0] EXCEPT !.interfaces = write.runs])

\* the lists given to the setters of all entries: one run for each face of
\* a PIXEL, a neighbour listed twice, an id past the largest int
SetRuns ==
    {<<<<1, 1>>, <<>>, <<>>, <<>>>>,
     <<<<Pow2(IntBits) + 1>>, <<>>, <<>>, <<1>>>>}

\* Cell::setAdjacencies(adjacencies) and Cell::setInterfaces(interfaces):
\* nothing is done for a cell of undefined type; both functions assert that
\* the storage of the interfaces has a run for each face, a build without
\* assertions goes on; FlatVector2D::initialize makes the runs those given
setCellAdjacencies ==
    \E adjacencies \in SetRuns, fault \in BOOLEAN :
        /\ 0 \in DOMAIN cells
        /\ Len(Flatten(cells[0].interfaces)) + Len(Flatten(adjacencies)) <= MaxStoredItems
        /\ fault => cells[0].type # "UNDEFINED" /\ Len(cells[0].interfaces) # nCellFaces
        /\ CellWritten(fault,
              IF cells[0].type = "UNDEFINED" \/ fault THEN cells[0]
              ELSE [cells[0] EXCEPT !.adjacencies = adjacencies])

setCellInterfaces ==
    \E ids \in SetRuns, fault \in BOOLEAN :
        /\ 0 \in DOMAIN cells
        /\ Len(Flatten(ids)) + Len(Flatten(cells[0].adjacencies)) <= MaxStoredItems
        /\ fault => cells[0].type # "UNDEFINED" /\ Len(cells[0].interfaces) # nCellFaces
        /\ CellWritten(fault,
              IF cells[0].type = "UNDEFINED" \/ fault THEN cells[0]
              ELSE [cells[0] EXCEPT !.interfaces = ids])

\* Cell::getInterface(face, index) and Cell::getAdjacency(face, index) with
\* index 0
getCellInterface ==
    \E face \in Faces :
        /\ status = "ok"
        /\ StoresInterfaces
        /\ lastCall = NoCall
        /\ \E read \in getItem(cells[0].interfaces, face, 0) :
              /\ lastCall' = [operation |-> "getInterface", face |-> face,
                              fault |-> read.fault, returned |-> read.value]
              /\ status' = IF read.fault THEN "failed" ELSE "ok"
        /\ UNCHANGED <<tree, mapping, lastTreeOperation, patchVars, adaptions,
                       result, probe, ghosts, cellToGhost, geometryVars, ranks, buffer>>

getCellAdjacency ==
    \E face \in Faces :
        /\ status = "ok"
        /\ StoresAdjacencies
        /\ lastCall = NoCall
        /\ \E read \in getItem(cells[0].adjacencies, face, 0) :
              /\ lastCall' = [operation |-> "getAdjacency", face |-> face,
                              fault |-> read.fault, returned |-> read.value]
              /\ status' = IF read.fault THEN "failed" ELSE "ok"
        /\ UNCHANGED <<tree, mapping, lastTreeOperation, patchVars, adaptions,
                       result, probe, ghosts, cellToGhost, geometryVars, ranks, buffer>>

NextStorage ==
    \/ createCell
    \/ \E storeInterfaces \in BOOLEAN : resetCellInterfaces(storeInterfaces)
    \/ \E storeAdjacencies \in BOOLEAN : resetCellAdjacencies(storeAdjacencies)
    \/ \E id \in {7}, interior \in BOOLEAN, storeNeighbourhood \in BOOLEAN :
          initializeCell(id, interior, storeNeighbourhood)
    \/ swapCell
    \/ (StoresAdjacencies /\ nItems(cells[0]) < MaxStoredItems /\ pushCellAdjacency)
    \/ (StoresInterfaces /\ nItems(cells[0]) < MaxStoredItems /\ pushCellInterface)
    \/ (StoresAdjacencies /\ deleteCellAdjacency)
    \/ (StoresInterfaces /\ deleteCellInterface)
    \/ setCellAdjacency
    \/ setCellInterface
    \/ setCellAdjacencies
    \/ setCellInterfaces
    \/ getCellInterface
    \/ getCellAdjacency

SpecStorage == InitCell /\ [][NextStorage]_vars

(***************************************************************************)
(* Marking as one process of a distributed run sees it: the process owns   *)
(* a Morton range of the uniform tree of level 1 and holds the cells of    *)
(* the other octants as ghosts.  The caller keeps the returned value.      *)
(***************************************************************************)
InitMarkers ==
    \E first \in 0 .. (nChildren - 1), last \in 0 .. (nChildren - 1) :
            /\ first <= last
            /\ last - first + 1 < nChildren
            /\ HoldsRange(first, last)
            /\ mapping = <<>>
            /\ lastTreeOperation = "OP_LOAD_BALANCE"
            /\ status = "ok"
            /\ adaptions = 1
            /\ result = NoResult
            /\ probe = NoProbe
            /\ TreeGeometry(Real(1, 0, 0))
            /\ vertexScaling = <<>>
            /\ lastCall = NoCall
            /\ buffer = <<>>
            /\ ranks = <<>>

\* markCellForRefinement and markCellForCoarsening: set_marker(id, 1 or -1)
ObservedMark(id, value) ==
    /\ status = "ok"
    /\ tree' = set_marker(id, value).tree
    /\ lastCall' = [operation |-> "set_marker", id |-> id, value |-> value,
                    returned |-> set_marker(id, value).returned]
    /\ UNCHANGED <<mapping, lastTreeOperation, patchVars, status, adaptions, result,
                   probe, ghosts, cellToGhost, geometryVars, buffer, ranks>>

\* enableCellBalancing(id, enabled)
ObservedBalancing(id, enabled) ==
    /\ status = "ok"
    /\ tree' = enableCellBalancing(id, enabled).tree
    /\ lastCall' = [operation |-> "enableCellBalancing", id |-> id, value |-> enabled,
                    returned |-> enableCellBalancing(id, enabled).returned]
    /\ UNCHANGED <<mapping, lastTreeOperation, patchVars, status, adaptions, result,
                   probe, ghosts, cellToGhost, geometryVars, buffer, ranks>>

NextMarkers ==
    \/ \E id \in DOMAIN cells : ObservedMark(id, 1)
    \/ \E id \in DOMAIN cells : ObservedMark(id, -1)
    \/ \E id \in DOMAIN cells, enabled \in BOOLEAN : ObservedBalancing(id, enabled)

SpecMarkers == InitMarkers /\ [][NextMarkers]_vars

(***************************************************************************)
(* Load balance as the processes of a distributed run see it.  The octants *)
(* of the uniform tree of level 1 are split into one Morton range for each *)
(* rank, and ranks[r + 1] holds what rank r has: its range of the tree,    *)
(* the mapping and the sent ranges of the last load balance, and the cells *)
(* of its patch with their octants.  A load balance moves the ranges and   *)
(* every rank then runs a tracked sync.  This view keeps the cells and the *)
(* cell events; vertices and interfaces are left to the views above.       *)
(***************************************************************************)
nRanks == MaxRank + 1

\* the global tree of the run: the tree the first update builds for the
\* initial level 1, as in Imported(1)
PartitionTree == AdaptTree(<<Octant(0, 0, 0, 1, FALSE)>>)

\* global tree indices of the octants of rank r when owner[g + 1] owns g
Owned(owner, r) == {g \in 0 .. (Len(owner) - 1) : owner[g + 1] = r}

FirstOwned(owner, r) == IF Owned(owner, r) = {} THEN 0 ELSE Min(Owned(owner, r))

\* the ghost layer of rank r: the octants of other ranks touching its own
GhostLayer(owner, r) ==
    SortedSeq({g \in 0 .. (Len(owner) - 1) :
                  /\ owner[g + 1] # r
                  /\ \E h \in Owned(owner, r) :
                        Touch(PartitionTree[g + 1], PartitionTree[h + 1])})

\* every rank holds one contiguous range, the ranges follow the ranks
Partitions ==
    {owner \in [1 .. Len(PartitionTree) -> 0 .. (nRanks - 1)] :
        \A g \in 1 .. (Len(owner) - 1) : owner[g] <= owner[g + 1]}

\* the ownership the ranges of the ranks R stand for
OwnerOf(R) ==
    [g \in 1 .. Len(PartitionTree) |->
        CHOOSE r \in 0 .. (nRanks - 1) :
            (g - 1) \in R[r + 1].first .. (R[r + 1].first + R[r + 1].nOctants - 1)]

\* getMapping after a load balance: the previous local index and the
\* previous rank of every octant rank r holds now
PartitionMapping(before, after, r) ==
    LET own == SortedSeq(Owned(after, r))
    IN  [t \in DOMAIN own |->
            [map  |-> <<own[t] - FirstOwned(before, before[own[t] + 1])>>,
             rank |-> <<before[own[t] + 1]>>,
             newR |-> FALSE, newC |-> FALSE]]

\* getSentIdx: for every rank that received octants of rank r, the range
\* of previous local indices it received; the second range is empty
getSentIdx(before, after, r) ==
    LET sentTo(q) == Owned(before, r) \cap Owned(after, q)
        first == FirstOwned(before, r)
    IN  [q \in {p \in 0 .. (nRanks - 1) : p # r /\ sentTo(p) # {}} |->
            <<Min(sentTo(q)) - first,
              Min(sentTo(q)) - first + Cardinality(sentTo(q)), 0, 0>>]

\* a patch without cells on the range of rank r
EmptyRank(owner, r) ==
    [first             |-> FirstOwned(owner, r),
     nOctants          |-> Cardinality(Owned(owner, r)),
     ghostOctants      |-> GhostLayer(owner, r),
     mapping           |-> <<>>,
     sent              |-> <<>>,
     lastTreeOperation |-> "OP_INITIALIZATION",
     octantToCell      |-> <<>>,
     ghostToCell       |-> <<>>,
     cellOctants       |-> <<>>,
     nextCell          |-> EmptyPatch.next.cell,
     stale             |-> TRUE,
     events            |-> <<>>,
     removed           |-> <<>>]

\* adaption::Info with the rank it is about; unordered holds the ids that
\* follow the current ids in an order the code leaves open
RankEvent(type, rank, previous, current) ==
    [type |-> type, entity |-> "CELL", rank |-> rank,
     previous |-> previous, current |-> current, unordered |-> {}]

\* the kind of adaption of octant treeId with mapping entry m on rank r
RankAdaptionType(r, importAll, lastOp, m, treeId) ==
    IF importAll THEN "CREATION"
    ELSE IF lastOp = "OP_ADAPTION_MAPPED"
    THEN IF m.newR THEN "REFINEMENT"
         ELSE IF m.newC THEN "COARSENING"
         ELSE IF treeId # m.map[1] THEN "RENUMBERING"
         ELSE "NONE"
    ELSE IF lastOp = "OP_LOAD_BALANCE"
    THEN IF r # m.rank[1] THEN "PARTITION_RECV"
         ELSE IF treeId # m.map[1] THEN "RENUMBERING"
         ELSE "NONE"
    ELSE "NONE"

\* the centroids of the cells of a rank, from the octants they stand for
OctantCentroids(octantOf) ==
    [c \in DOMAIN octantOf |->
        SumPoints([k \in 1 .. nCellVertices |-> getNode(octantOf[c], k - 1)])]

\* tree ids of the two ranges [b0, e0) and [b1, e1)
SentTreeIds(range) ==
    (range[1] .. (range[2] - 1)) \cup (range[3] .. (range[4] - 1))

\* the same tree ids in the order the loop over the two ranges takes them
SentTreeIdList(range) ==
    [k \in 1 .. (range[2] - range[1]) |-> range[1] + k - 1]
        \o [k \in 1 .. (range[4] - range[3]) |-> range[3] + k - 1]

\* the orders in which a loop over an unordered map may visit the keys
Orders(keys) ==
    {order \in [1 .. Cardinality(keys) -> keys] :
        \A i, j \in DOMAIN order : i # j => order[i] # order[j]}

\* the tracked sync of rank r; sentRanks lists the ranks of the sent ranges
\* in the order the loop over the unordered map of getSentIdx visits them
syncRank(R, r, sentRanks) ==
    LET importAll  == Cardinality(DOMAIN R.cellOctants) = 0
        treeIds    == 0 .. (R.nOctants - 1)
        type(t)    == RankAdaptionType(r, importAll, R.lastTreeOperation,
                                       IF importAll THEN NoMapping ELSE R.mapping[t + 1], t)
        kept       == {t \in treeIds : type(t) \in {"NONE", "RENUMBERING"}}
        added      == SortedSeq(treeIds \ kept)
        sources    == SortedSeq({R.mapping[t + 1].rank[1] :
                                   t \in {u \in treeIds : type(u) = "PARTITION_RECV"}})
        sentIds(q) == {R.octantToCell[t] : t \in SentTreeIds(R.sent[q])}
        mapped     == {R.mapping[t + 1].map[1] : t \in kept}
                        \cup UNION {SentTreeIds(R.sent[q]) : q \in DOMAIN R.sent}
        unmapped   == SortedSeq(DOMAIN R.octantToCell \ mapped)
        nGhosts    == Len(R.ghostOctants)
        next       == [cell |-> R.nextCell]
        newCell(t) == generateCellId(next, CHOOSE k \in DOMAIN added : added[k] = t)
        octToCell  == [t \in treeIds |->
                          IF t \in kept THEN R.octantToCell[R.mapping[t + 1].map[1]]
                          ELSE newCell(t)]
        ghostCell  == [g \in 0 .. (nGhosts - 1) |->
                          generateCellId(next, Len(added) + g + 1)]
        octants    == [c \in Range(octToCell) \cup Range(ghostCell) |->
                          IF c \in Range(octToCell)
                          THEN PartitionTree[R.first + 1
                                   + (CHOOSE t \in treeIds : octToCell[t] = c)]
                          ELSE PartitionTree[1 + R.ghostOctants[1
                                   + (CHOOSE g \in DOMAIN ghostCell : ghostCell[g] = c)]]]
        dead       == UNION {sentIds(q) : q \in DOMAIN R.sent}
                        \cup Range(R.ghostToCell)
                        \cup {R.octantToCell[t] : t \in Range(unmapped)}
        ghostIds   == SortedSeq(Range(R.ghostToCell))
        creation   == IF importAll /\ R.nOctants > 0
                      THEN [k \in DOMAIN added |-> octToCell[added[k]]]
                      ELSE <<>>
        \* the ghost cells are listed after the imported cells as the
        \* unordered map from the cells to the ghost octants iterates: the
        \* event holds them as a set
        created    == [RankEvent("CREATION", r, <<>>, creation)
                          EXCEPT !.unordered = Range(ghostCell)]
    IN  [R EXCEPT
           !.octantToCell = octToCell,
           !.ghostToCell  = ghostCell,
           !.cellOctants  = octants,
           !.nextCell     = @ + Len(added) + nGhosts,
           !.stale        = FALSE,
           !.removed      = [c \in dead |-> R.cellOctants[c]],
           !.events       =
               (IF creation # <<>>
                THEN <<created>> ELSE <<>>)
               \o (IF importAll THEN <<>>
                   ELSE [k \in DOMAIN sources |->
                           LET from == {t \in treeIds : type(t) = "PARTITION_RECV"
                                            /\ R.mapping[t + 1].rank[1] = sources[k]}
                           IN  RankEvent("PARTITION_RECV", sources[k],
                                   [j \in 1 .. Cardinality(from) |-> NULL_ID],
                                   SortedByPosition(SortedSeq({octToCell[t] : t \in from}),
                                                    OctantCentroids(octants)))])
               \* the octants of a range listed for the rank itself are
               \* deleted, the others are sent and sorted by position
               \o [k \in DOMAIN sentRanks |->
                      IF sentRanks[k] = r
                      THEN RankEvent("DELETION", r,
                               [j \in DOMAIN SentTreeIdList(R.sent[r]) |->
                                   R.octantToCell[SentTreeIdList(R.sent[r])[j]]], <<>>)
                      ELSE RankEvent("PARTITION_SEND", sentRanks[k],
                               SortedByPosition(SortedSeq(sentIds(sentRanks[k])),
                                                OctantCentroids(R.cellOctants)), <<>>)]
               \o (IF ghostIds \o unmapped # <<>>
                   \* the DeleteInfo of these cells is built without a rank
                   THEN <<RankEvent("DELETION", -1,
                             ghostIds \o [k \in DOMAIN unmapped |->
                                             R.octantToCell[unmapped[k]]], <<>>)>>
                   ELSE <<>>)
               \o (IF creation = <<>> /\ nGhosts > 0
                   THEN <<created>> ELSE <<>>)]

\* the ranks after each has imported its range of the partitioned tree
InitPartition ==
    \E owner \in Partitions :
        /\ ranks = [r \in 1 .. nRanks |-> syncRank(EmptyRank(owner, r - 1), r - 1, <<>>)]
        /\ tree = PartitionTree
        /\ TreeGeometry(Real(1, 0, 0))
        /\ vertexScaling = <<>>
        /\ lastCall = NoCall
        /\ ghosts = <<>>
        /\ cellToGhost = <<>>
        /\ buffer = <<>>
        /\ mapping = <<>>
        /\ lastTreeOperation = "OP_INITIALIZATION"
        /\ cells = <<>>
        /\ vertices = <<>>
        /\ interfaces = <<>>
        /\ cellToOctant = <<>>
        /\ octantToCell = <<>>
        /\ nextId = EmptyPatch.next
        /\ status = "ok"
        /\ adaptions = 0
        /\ result = NoResult
        /\ probe = NoProbe

partitionRest == <<tree, mapping, lastTreeOperation, patchVars, status, result, probe,
                   lastCall, ghosts, cellToGhost, geometryVars, buffer>>

\* loadBalance on all ranks: the ranges move, every rank gets its mapping
\* and its sent ranges
loadBalance ==
    /\ adaptions < MaxAdaptions
    /\ \A r \in DOMAIN ranks : ~ranks[r].stale
    /\ \E after \in Partitions \ {OwnerOf(ranks)} :
          ranks' = [r \in DOMAIN ranks |->
                      [ranks[r] EXCEPT
                         !.first             = FirstOwned(after, r - 1),
                         !.nOctants          = Cardinality(Owned(after, r - 1)),
                         !.ghostOctants      = GhostLayer(after, r - 1),
                         !.mapping           = PartitionMapping(OwnerOf(ranks), after, r - 1),
                         !.sent              = getSentIdx(OwnerOf(ranks), after, r - 1),
                         !.lastTreeOperation = "OP_LOAD_BALANCE",
                         !.stale             = TRUE]]
    /\ adaptions' = adaptions + 1
    /\ UNCHANGED partitionRest

\* update on one rank: sync(true)
updateRank ==
    /\ \E r \in DOMAIN ranks :
          /\ ranks[r].stale
          /\ \E sentRanks \in Orders(DOMAIN ranks[r].sent) :
                ranks' = [ranks EXCEPT ![r] = syncRank(@, r - 1, sentRanks)]
    /\ UNCHANGED <<adaptions, partitionRest>>

NextPartition ==
    \/ loadBalance
    \/ updateRank

SpecPartition == InitPartition /\ [][NextPartition]_vars

(***************************************************************************)
(* The classification of sync on its own: one octant the loop of sync      *)
(* visits is given its adaption type.  The octant, its mapping entry and   *)
(* the last tree operation are those of a sync of the program: the first   *)
(* import, the sync that follows a mapped adaption of a patch, or the sync *)
(* of a rank that follows a load balance.                                  *)
(***************************************************************************)
\* the tree ids at which the loop of sync classifies an octant: the loop
\* steps over the octants imported together with the one it classified
RECURSIVE SyncVisits(_, _, _, _, _)
SyncVisits(importAll, lastOp, M, nOctants, treeId) ==
    IF treeId >= nOctants THEN {}
    ELSE LET m    == IF importAll THEN NoMapping ELSE M[treeId + 1]
             type == AdaptionType(importAll, lastOp, m, treeId)
             n    == IF type \in {"NONE", "RENUMBERING"} THEN 1
                     ELSE nCurrentTreeIds(importAll, type, nOctants, treeId)
         IN  {treeId} \cup SyncVisits(importAll, lastOp, M, nOctants, treeId + n)

\* what the classification is handed at each octant a sync visits
ProbesOf(importAll, lastOp, M, nOctants) ==
    {[importAll |-> importAll, lastTreeOperation |-> lastOp, treeId |-> t,
      mapping |-> IF importAll THEN NoMapping ELSE M[t + 1], type |-> "unset"] :
        t \in SyncVisits(importAll, lastOp, M, nOctants, 0)}

\* the patches that are adapted: the patch of the uniform tree of the given
\* level and the patches with one of its cells refined
ProbePatches(level) ==
    {S \in {Imported(level)}
              \cup {Refined(Imported(level), t) : t \in 0 .. (nChildren - 1)} :
        S.outcome = "synced"}

\* the sync of _updateAdaption(true) on a patch with cells, for every way
\* of marking its cells
AdaptionProbes(patches) ==
    UNION {UNION {LET T == [i \in DOMAIN S.tree |->
                              [S.tree[i] EXCEPT !.marker = markers[i]]]
                  IN  IF ReturnsEarly(AdaptUpdated(T)) THEN {}
                      ELSE ProbesOf(FALSE, "OP_ADAPTION_MAPPED", AdaptMapping(T),
                                    Len(AdaptTree(T))) :
                     markers \in [DOMAIN S.tree -> {-1, 0, 1}]} :
              S \in patches}

\* the sync of _updateAdaption on a patch without cells
ImportProbes(nOctants) ==
    UNION {ProbesOf(TRUE, lastOp, <<>>, nOctants) :
              lastOp \in {"OP_ADAPTION_MAPPED", "OP_ADAPTION_UNMAPPED"}}

\* the sync of the current rank after a load balance that left it octants
\* and found it with cells
LoadBalanceProbes(partitions) ==
    UNION {ProbesOf(FALSE, "OP_LOAD_BALANCE",
                    PartitionMapping(before, after, currentRank),
                    Cardinality(Owned(after, currentRank))) :
              before \in {o \in partitions : Owned(o, currentRank) # {}},
              after \in partitions}

InitClassify ==
    /\ Constructed
    /\ probe \in ImportProbes(Len(PartitionTree)) \cup AdaptionProbes(ProbePatches(1))
                    \cup LoadBalanceProbes(Partitions)

\* the "Adaption type" step of the loop of sync
classify ==
    /\ probe.type = "unset"
    /\ probe' = [probe EXCEPT !.type =
                    AdaptionType(probe.importAll, probe.lastTreeOperation,
                                 probe.mapping, probe.treeId)]
    /\ UNCHANGED <<tree, mapping, lastTreeOperation, patchVars, status, adaptions, result,
                   restVars>>

NextClassify == classify

SpecClassify == InitClassify /\ [][NextClassify]_vars

(***************************************************************************)
(* Geometry kernel (CG): pure functions on points, segments, triangles and *)
(* axis aligned boxes.  Points have integer coordinates; a point computed  *)
(* by a division is kept as a numerator and a positive denominator, so the *)
(* sign tests of the code are made on exact values.  The tolerance 1e-14   *)
(* is far below the distance of two values of the grid.                    *)
(***************************************************************************)
Vec(x, y, z) == <<x, y, z>>

Minus(a, b) == <<a[1] - b[1], a[2] - b[2], a[3] - b[3]>>

Plus(a, b) == <<a[1] + b[1], a[2] + b[2], a[3] + b[3]>>

Scaled(k, a) == <<k * a[1], k * a[2], k * a[3]>>

dotProduct(a, b) == a[1] * b[1] + a[2] * b[2] + a[3] * b[3]

crossProduct(a, b) ==
    <<a[2] * b[3] - a[3] * b[2], a[3] * b[1] - a[1] * b[3], a[1] * b[2] - a[2] * b[1]>>

\* the point num / den
Point(num, den) == [num |-> num, den |-> den]

\* an output argument the call has not written
Unwritten == [num |-> <<>>, den |-> 0]

\* intersectLinePlane: P1 a point and n1 a direction of the line, P2 a point
\* and n2 a normal of the plane (lengths of n1 and n2 cancel in the point)
intersectLinePlane(P1, n1, P2, n2) ==
    LET s == dotProduct(n1, n2)
        t == -dotProduct(Minus(P1, P2), n2)
    IN  IF s = 0 THEN [returned |-> FALSE, P |-> Unwritten]
        ELSE [returned |-> TRUE,
              P |-> IF s > 0 THEN Point(Plus(Scaled(s, P1), Scaled(t, n1)), s)
                    ELSE Point(Plus(Scaled(-s, P1), Scaled(-t, n1)), -s)]

\* _projectPointsPlane: the barycentric coordinates of the projection of P
\* on the plane of Q0 Q1 Q2, each times the same positive number
projectPointsPlane(P, Q0, Q1, Q2) ==
    LET s0  == Minus(Q1, Q0)
        s1  == Minus(Q2, Q0)
        a   == dotProduct(s0, s0)
        c   == dotProduct(s0, s1)
        d   == dotProduct(s1, s1)
        rP  == Minus(P.num, Scaled(P.den, Q0))
        B0  == dotProduct(s0, rP)
        B1  == dotProduct(s1, rP)
        det == a * d - c * c
        b0  == d * B0 - c * B1
        b1  == a * B1 - c * B0
    IN  <<det * P.den - b0 - b1, b0, b1>>

intersectPointTriangle(P, A, B, C) ==
    \A i \in 1 .. 3 : ~(projectPointsPlane(P, A, B, C)[i] < 0)

intersectPointSegment(P, P1, P2) ==
    LET n1 == Minus(P1, P2)
        n2 == Minus(P.num, Scaled(P.den, P2))
    IN  \/ n2 = <<0, 0, 0>>
        \/ /\ crossProduct(n1, n2) = <<0, 0, 0>>
           /\ dotProduct(n1, n2) > 0
           /\ dotProduct(n2, n2) <= P.den * P.den * dotProduct(n1, n1)

\* the value of an array3D that was never written: whatever the memory
\* holds, any point of space or no number at all.  The model does not name
\* the value
Undetermined == [num |-> <<>>, den |-> -1]

\* the local xP after a call that returned the given answer
LocalPoint(answer) ==
    IF answer.P = Unwritten THEN Undetermined ELSE answer.P

\* the answers a test of the point xP can give: the answer computed for a
\* point that was written, either answer for an undetermined value
TestOf(xP, computed) == IF xP = Undetermined THEN BOOLEAN ELSE {computed}

\* intersectLineTriangle: the outcomes of the call.  The test of the
\* triangle is made only when intersectLinePlane returned false, on a local
\* that intersectLinePlane did not write
intersectLineTriangle(P, n, A, B, C) ==
    LET nT    == crossProduct(Minus(B, A), Minus(C, A))
        plane == intersectLinePlane(P, n, A, nT)
        xP    == LocalPoint(plane)
    IN  IF plane.returned THEN {[returned |-> TRUE, P |-> xP]}
        ELSE {IF ~inside THEN [returned |-> FALSE, P |-> Unwritten]
              ELSE [returned |-> TRUE, P |-> xP] :
                 inside \in TestOf(xP, intersectPointTriangle(xP, A, B, C))}

\* intersectSegmentTriangle: the test of the segment is made only when
\* intersectLineTriangle returned false, on a local it did not write
intersectSegmentTriangle(P0, P1, A, B, C) ==
    LET n == Minus(P1, P0)
    IN  UNION {LET xP == LocalPoint(line)
               IN  IF line.returned THEN {[returned |-> TRUE, P |-> xP]}
                   ELSE {IF ~onSegment THEN [returned |-> FALSE, P |-> Unwritten]
                         ELSE [returned |-> TRUE, P |-> xP] :
                            onSegment \in TestOf(xP, intersectPointSegment(xP, P0, P1))} :
               line \in intersectLineTriangle(P0, n, A, B, C)}

\* subtractionAABB: C0 and C1 as the call leaves them
subtractionAABB(A0, A1, B0, B1, C0, C1) ==
    LET covers(i, j) == B0[i] <= A0[i] /\ B0[j] <= A0[j] /\ B1[i] >= A1[i] /\ B1[j] >= A1[j]
        in0(k) == B0[k] <= A0[k] /\ B1[k] >= A0[k]
        in1(k) == B0[k] <= A1[k] /\ B1[k] >= A1[k]
        x0 == IF covers(2, 3) THEN (IF in0(1) THEN B1[1] ELSE A0[1]) ELSE C0[1]
        x1 == IF covers(2, 3) THEN (IF in1(1) THEN B0[1] ELSE A1[1]) ELSE C1[1]
        y0 == IF covers(1, 3) THEN (IF in0(2) THEN B1[2] ELSE A0[3]) ELSE C0[2]
        y1 == IF covers(1, 3) THEN (IF in1(2) THEN B0[2] ELSE A1[3]) ELSE C1[2]
        z0 == IF covers(1, 2) THEN (IF in0(3) THEN B1[3] ELSE A0[3]) ELSE C0[3]
        z1 == IF covers(1, 2) THEN (IF in1(3) THEN B0[3] ELSE A1[3]) ELSE C1[3]
    IN  [C0 |-> <<x0, y0, z0>>, C1 |-> <<x1, y1, z1>>]

\* values of an int the program has not determined
UnspecifiedFlags == -4 .. 4

\* convertBarycentricToFlagTriangle, the outcomes of the call; lambda[i + 1]
\* is lambda[i] of the code.  The array zeros holds two indices: with three
\* coordinates that are not positive the third index is written past its
\* end, which is undefined
convertBarycentricToFlagTriangle(lambda) ==
    LET zeros == SortedSeq({i \in 0 .. 2 : lambda[i + 1] <= 0})
        count == Len(zeros)
    IN  IF count = 1 THEN {[fault |-> FALSE, value |-> -(((zeros[1] + 1) % 3) + 1)]}
        ELSE IF count = 2
        THEN {[fault |-> FALSE, value |-> 3 - zeros[1] - zeros[2] + 1]}
        ELSE IF count = 3
        THEN {[fault |-> TRUE, value |-> 0]}
                \cup {[fault |-> FALSE, value |-> v] : v \in UnspecifiedFlags}
        ELSE {[fault |-> FALSE, value |-> count]}

\* convertBarycentricToFlagSimplex of a simplex with three vertices
convertBarycentricToFlagSimplex(lambda) ==
    LET positives == SortedSeq({i \in 0 .. (Len(lambda) - 1) : lambda[i + 1] > 0})
        count     == Len(positives)
    IN  IF count = 1 THEN positives[1] + 1
        ELSE IF count = 2 THEN -((positives[1] + 1) + 1)
        ELSE 0

\* the points of the grid
GridPoints == {Vec(x, y, z) : x \in 0 .. MaxCoord, y \in 0 .. MaxCoord, z \in 0 .. MaxCoord}

\* directions of a line
Directions == {Vec(x, y, z) : x \in -1 .. 1, y \in -1 .. 1, z \in -1 .. 1} \ {<<0, 0, 0>>}

\* triangles with an area
Triangles ==
    {<<Vec(0, 0, 0), Vec(MaxCoord, 0, 0), Vec(0, MaxCoord, 0)>>,
     <<Vec(0, 0, 0), Vec(0, MaxCoord, 0), Vec(0, 0, MaxCoord)>>}

\* boxes with a volume: the pairs of a min point and a max point
Boxes == {b \in GridPoints \X GridPoints : \A k \in 1 .. 3 : b[1][k] < b[2][k]}

\* barycentric coordinates of three vertices, in units of 1 / LambdaUnit
Barycentrics ==
    {l \in [1 .. 3 -> -1 .. (LambdaUnit + 1)] : l[1] + l[2] + l[3] = LambdaUnit}

InitKernel ==
    /\ ConstructedWith({0}, {1})
    /\ probe = NoProbe

kernelRest == <<tree, mapping, lastTreeOperation, patchVars, status, adaptions, result,
                probe, ghosts, cellToGhost, geometryVars, buffer, ranks>>

askLineTriangle ==
    \E P \in GridPoints, n \in Directions, T \in Triangles :
        \E answer \in intersectLineTriangle(P, n, T[1], T[2], T[3]) :
            /\ lastCall = NoCall
            /\ lastCall' = [operation |-> "intersectLineTriangle", P |-> P, n |-> n,
                            T |-> T, returned |-> answer.returned, Q |-> answer.P]
            /\ UNCHANGED kernelRest

askSegmentTriangle ==
    \E P0 \in GridPoints, P1 \in GridPoints, T \in Triangles :
        \E answer \in intersectSegmentTriangle(P0, P1, T[1], T[2], T[3]) :
            /\ P0 # P1
            /\ lastCall = NoCall
            /\ lastCall' = [operation |-> "intersectSegmentTriangle", P |-> P0,
                            n |-> Minus(P1, P0), T |-> T,
                            returned |-> answer.returned, Q |-> answer.P]
            /\ UNCHANGED kernelRest

\* C0 and C1 hold -1 on every axis when the call is made
askSubtractionAABB ==
    \E A \in Boxes, B \in Boxes :
        /\ lastCall = NoCall
        /\ lastCall' = [operation |-> "subtractionAABB", A |-> A, B |-> B,
                        C |-> subtractionAABB(A[1], A[2], B[1], B[2],
                                              Vec(-1, -1, -1), Vec(-1, -1, -1))]
        /\ UNCHANGED kernelRest

askFlag ==
    \E lambda \in Barycentrics :
        \E flag \in convertBarycentricToFlagTriangle(lambda) :
            /\ lastCall = NoCall
            /\ lastCall' = [operation |-> "convertBarycentricToFlag", lambda |-> lambda,
                            fault |-> flag.fault, triangle |-> flag.value,
                            simplex  |-> convertBarycentricToFlagSimplex(lambda)]
            /\ UNCHANGED kernelRest

NextKernel ==
    \/ askLineTriangle
    \/ askSegmentTriangle
    \/ askSubtractionAABB
    \/ askFlag

SpecKernel == InitKernel /\ [][NextKernel]_vars

(***************************************************************************)
(* Markers set on the tree itself: getTree() hands the tree to the caller, *)
(* who may ask for a refinement of more than one level.                    *)
(***************************************************************************)
\* getTree().setMarker(t, value) with a value of two levels or more, on a
\* tree without markers
setTreeMarker ==
    \E t \in DOMAIN tree, value \in 2 .. MaxMarker :
        /\ status = "ok"
        /\ cells # <<>>
        /\ nMarked(tree) = 0
        /\ tree[t].level + value <= MaxLevel
        /\ tree' = [tree EXCEPT ![t].marker = value]
        /\ UNCHANGED <<mapping, lastTreeOperation, patchVars, status, adaptions,
                       result, probe, restVars>>

NextDeep ==
    \/ markCellForRefinement
    \/ setTreeMarker
    \/ \E trackAdaption \in BOOLEAN : updateAdaption(trackAdaption)

SpecDeep == InitBalance /\ [][NextDeep]_vars

(***************************************************************************)
(* Properties.                                                             *)
(***************************************************************************)
\* the last update_adaption call ran a sync that completed
SyncCompleted == result.outcome = "synced"

\* the step is an update_adaption call
IsUpdate == adaptions' = adaptions + 1

CellEvents(events) == {e \in Range(events) : e.entity = "CELL"}

CurrentIds(events) ==
    UNION {Range(e.current) :
             e \in {x \in CellEvents(events) :
                      x.type \in {"CREATION", "REFINEMENT", "COARSENING",
                                  "RENUMBERING", "PARTITION_RECV"}}}

PreviousIds(events) ==
    UNION {Range(e.previous) :
             e \in {x \in CellEvents(events) :
                      x.type \in {"DELETION", "REFINEMENT", "COARSENING",
                                  "RENUMBERING", "PARTITION_SEND"}}}

\* C1: after every sync that completed the cell->octant and octant->cell
\* maps are mutually inverse, the keys of octant->cell are exactly the tree
\* indices 0 .. nOctants-1, and the keys of cell->octant are exactly the
\* live interior cells of the patch.
MapsMutuallyInverse ==
    SyncCompleted =>
        /\ \A c \in DOMAIN cellToOctant :
              /\ cellToOctant[c] \in DOMAIN octantToCell
              /\ octantToCell[cellToOctant[c]] = c
        /\ \A t \in DOMAIN octantToCell :
              /\ octantToCell[t] \in DOMAIN cellToOctant
              /\ cellToOctant[octantToCell[t]] = t
        /\ DOMAIN octantToCell = 0 .. (Len(tree) - 1)
        /\ DOMAIN cellToOctant = {c \in DOMAIN cells : cells[c].interior}

\* a sync that deleted cells and renumbered others has completed
MapsAfterRenumbering ==
    /\ SyncCompleted
    /\ result.deleted # {}
    /\ result.renumbered # {}

\* C2 (as the code has it): in a tracked sync the current ids of the cell
\* events are exactly the cells the sync created and the previous ids are
\* exactly the cells it deleted; cells that stay, renumbered or not, are in
\* no event.
EventsCoverChangedCells ==
    [][(IsUpdate /\ result'.outcome = "synced" /\ result'.track) =>
          /\ CurrentIds(result'.events) = DOMAIN cells' \ DOMAIN cells
          /\ PreviousIds(result'.events) = DOMAIN cells \ DOMAIN cells']_vars

\* a tracked sync refined a cell and renumbered the cells behind it
TrackedRefinementWithRenumbering ==
    /\ SyncCompleted
    /\ result.track
    /\ result.renumbered # {}
    /\ \E e \in CellEvents(result.events) : e.type = "REFINEMENT"

\* C2 as stated: in a tracked sync the current ids of the cell events are
\* all the cells of the patch after the sync, the previous ids all the cells
\* before it.
EventsCoverAllCells ==
    [][(IsUpdate /\ result'.outcome = "synced" /\ result'.track) =>
          /\ CurrentIds(result'.events) = DOMAIN cells'
          /\ PreviousIds(result'.events) = DOMAIN cells]_vars

\* C3: the classification of an octant a sync visits is the first rule that
\* matches of: the patch was empty before the sync -> CREATION; the octant
\* is new by refinement -> REFINEMENT; new by coarsening -> COARSENING; some
\* rank of its mapping differs from the current rank -> PARTITION_RECV; its
\* tree index differs from the first index of its mapping -> RENUMBERING;
\* otherwise NONE, whatever tree operation preceded the sync.
ClassificationFollowsCascade ==
    probe.type # "unset" =>
        probe.type =
            IF probe.importAll THEN "CREATION"
            ELSE IF probe.mapping.newR THEN "REFINEMENT"
            ELSE IF probe.mapping.newC THEN "COARSENING"
            ELSE IF \E k \in DOMAIN probe.mapping.rank :
                       probe.mapping.rank[k] # currentRank THEN "PARTITION_RECV"
            ELSE IF probe.treeId # probe.mapping.map[1] THEN "RENUMBERING"
            ELSE "NONE"

\* the octant classified is new by refinement and its tree index differs
\* from the index of its parent as well: the rule of the refinement flag
\* came before the rule of the renumbering
RefinedOctantAlsoMoved ==
    /\ probe.type = "REFINEMENT"
    /\ ~probe.importAll
    /\ probe.mapping.newR
    /\ probe.treeId # probe.mapping.map[1]

\* octant o lies inside octant p and is finer than it
Inside(o, p) ==
    /\ o.level > p.level
    /\ p.x <= o.x /\ o.x < p.x + OctSize(p)
    /\ p.y <= o.y /\ o.y < p.y + OctSize(p)

\* positions in the adapted tree of the octants that replace the octant of
\* cell c of the patch before the step
ChildrenOf(c) ==
    {j \in DOMAIN tree' : Inside(tree'[j], tree[cellToOctant[c] + 1])}

\* cells of the patch before the step merged into the octant at position j
\* of the adapted tree
FamilyOf(j) ==
    {c \in DOMAIN cells : Inside(tree[cellToOctant[c] + 1], tree'[j])}

EventsOf(events, type, c) ==
    {i \in DOMAIN events : /\ events[i].entity = "CELL"
                           /\ events[i].type = type
                           /\ c \in Range(events[i].previous)}

\* C4: in a tracked sync of a non-empty patch every refined cell has exactly
\* one REFINEMENT event, whose previous ids are that cell alone and whose
\* current ids are its 2^dim children in increasing tree index; every
\* coarsened family has exactly one COARSENING event, with the one current
\* id of the parent and the 2^dim previous ids of the siblings.
OneEventPerRefinementAndCoarsening ==
    [][(IsUpdate /\ result'.outcome = "synced" /\ result'.track /\ DOMAIN cells # {}) =>
          /\ \A c \in DOMAIN cells :
                ChildrenOf(c) # {} =>
                    /\ Cardinality(EventsOf(result'.events, "REFINEMENT", c)) = 1
                    /\ \A i \in EventsOf(result'.events, "REFINEMENT", c) :
                          /\ result'.events[i].previous = <<c>>
                          /\ Cardinality(ChildrenOf(c)) = nChildren
                          /\ result'.events[i].current =
                                [k \in 1 .. nChildren |->
                                    octantToCell'[SortedSeq(ChildrenOf(c))[k] - 1]]
          /\ \A j \in DOMAIN tree' :
                FamilyOf(j) # {} =>
                    \A c \in FamilyOf(j) :
                        /\ Cardinality(EventsOf(result'.events, "COARSENING", c)) = 1
                        /\ \A i \in EventsOf(result'.events, "COARSENING", c) :
                              /\ result'.events[i].current = <<octantToCell'[j - 1]>>
                              /\ Len(result'.events[i].previous) = nChildren
                              /\ Range(result'.events[i].previous) = FamilyOf(j)]_vars

\* a tracked sync merged a family of cells
TrackedCoarsening ==
    /\ SyncCompleted
    /\ result.track
    /\ \E e \in CellEvents(result.events) :
          e.type = "COARSENING" /\ Len(e.previous) = nChildren

\* C5 as stated: a sync raises the unmapped-adaption failure exactly when
\* adapt was run without building the mapping and the patch is not empty;
\* never when adapt built the mapping.
UnmappedFailureIffNoMapping ==
    [][(IsUpdate /\ result'.outcome # "unchanged") =>
          (result'.outcome = "unmapped" <=>
              (~result'.buildMapping /\ getCellCount(Patch) # 0))]_vars

\* C6: after every sync that completed, every neighbour a cell lists across
\* a face is a live cell that lists the cell across the opposite face.
AdjacencySymmetric ==
    SyncCompleted =>
        \A a \in DOMAIN cells : \A f \in Faces :
            \A b \in Range(cells[a].adjacencies[f + 1]) :
                /\ b \in DOMAIN cells
                /\ a \in Range(cells[b].adjacencies[oppositeFace[f + 1] + 1])

\* a sync refined a cell whose face neighbours stay in the patch
RefinedBesideLivingCells ==
    /\ SyncCompleted
    /\ result.dangling # {}
    /\ Len(result.created) = nChildren

\* the octant of a live cell
CellOctant(c) == tree[cellToOctant[c] + 1]

\* C7: after every sync that completed, two corners of live cells hold the
\* same vertex id exactly when their nodes have the same Morton key.
VerticesStitched ==
    SyncCompleted =>
        \A a \in DOMAIN cells, b \in DOMAIN cells :
            \A i \in LocalVertices, j \in LocalVertices :
                (cells[a].connect[i + 1] = cells[b].connect[j + 1])
                    <=> (getNodeMorton(CellOctant(a), i) = getNodeMorton(CellOctant(b), j))

\* a sync imported the parent of a family beside cells that stay
CoarsenedBesideLivingCells ==
    /\ SyncCompleted
    /\ result.dangling # {}
    /\ Len(result.created) = 1

ReferencedVertices(P) == UNION {Range(P.cells[c].connect) : c \in DOMAIN P.cells}

\* C8: after deleteCells, and after the sync it is part of, the vertices of
\* the patch are exactly the vertices the surviving cells reference.
VerticesExactlyReferenced ==
    SyncCompleted =>
        /\ DOMAIN result.afterDelete.vertices = ReferencedVertices(result.afterDelete)
        /\ DOMAIN vertices = ReferencedVertices(Patch)

\* deleteCells removed a vertex and kept a vertex that was created later
VertexRemovedBesideLivingCells ==
    /\ SyncCompleted
    /\ result.dangling # {}
    /\ \E v \in DOMAIN result.afterDelete.vertices :
          \E w \in 0 .. (v - 1) : w \notin DOMAIN result.afterDelete.vertices

\* C9: after every sync that completed, every interface between two cells is
\* listed by its owner at the owner's face and by its neighbour at the
\* neighbour's face, both cells are live, and the cells list live
\* interfaces only.
InterfacesConsistent ==
    SyncCompleted =>
        /\ \A i \in DOMAIN interfaces :
              ~isBorder(interfaces[i]) =>
                  /\ interfaces[i].owner \in DOMAIN cells
                  /\ interfaces[i].neigh \in DOMAIN cells
                  /\ i \in Range(cells[interfaces[i].owner]
                                    .interfaces[interfaces[i].ownerFace + 1])
                  /\ i \in Range(cells[interfaces[i].neigh]
                                    .interfaces[interfaces[i].neighFace + 1])
        /\ \A c \in DOMAIN cells : CellInterfaces(cells[c]) \subseteq DOMAIN interfaces

\* a sync that deleted cells left a cell with two interfaces on one face
TwoInterfacesOnOneFace ==
    /\ SyncCompleted
    /\ result.deleted # {}
    /\ \E c \in DOMAIN cells : \E f \in Faces : Len(cells[c].interfaces[f + 1]) > 1

\* C10: when adapt reports that nothing changed, update_adaption returns
\* normally with no events and the cells, the vertices, the interfaces and
\* the two maps stay as they are.
NothingChangesWithoutAdaption ==
    [][(IsUpdate /\ ~AdaptUpdated(tree)) =>
          /\ result'.outcome = "unchanged"
          /\ result'.events = <<>>
          /\ cells' = cells
          /\ vertices' = vertices
          /\ interfaces' = interfaces
          /\ cellToOctant' = cellToOctant
          /\ octantToCell' = octantToCell]_vars

\* a later update_adaption call found nothing to adapt in a patch with cells
UnchangedWithMarkedCells ==
    /\ result.outcome = "unchanged"
    /\ DOMAIN cells # {}
    /\ adaptions > 1

\* C11 as stated: the first update_adaption of a patch constructed with
\* initial refinement level 0 leaves exactly one cell in the patch, at level
\* 0 and mapped to internal octant 0.
SingleCellAfterFirstUpdate ==
    [][(IsUpdate /\ adaptions = 0 /\ tree = <<Octant(0, 0, 0, 0, FALSE)>>) =>
          /\ Cardinality(DOMAIN cells') = 1
          /\ \A c \in DOMAIN cells' :
                /\ c \in DOMAIN cellToOctant'
                /\ cellToOctant'[c] = 0
                /\ tree'[cellToOctant'[c] + 1].level = 0]_vars

\* every cell lists across every face exactly the cells of the octants the
\* tree finds across that face, each once
GridAdjacency(P, T) ==
    \A c \in DOMAIN P.cells : \A f \in Faces :
        /\ ~HasDuplicates(P.cells[c].adjacencies[f + 1])
        /\ Range(P.cells[c].adjacencies[f + 1]) =
              {getOctantId(P.octantToCell, t) :
                  t \in Range(findNeighbours(T, P.cellToOctant[c], f))}

\* the patch has one cell per octant of the uniform tree of level l, with
\* the adjacencies of the uniform grid
UniformPatch(P, T, l) ==
    /\ UniformTree(T, l)
    /\ DOMAIN P.cellToOctant = DOMAIN P.cells
    /\ DOMAIN P.octantToCell = 0 .. (Len(T) - 1)
    /\ \A c \in DOMAIN P.cells : getOctantId(P.octantToCell, P.cellToOctant[c]) = c
    /\ GridAdjacency(P, T)

EveryMarker(T, value) == \A i \in DOMAIN T : T[i].marker = value

\* C12 as stated: an update_adaption of a uniform patch whose cells are all
\* marked for refinement gives the uniform patch one level finer, and an
\* update_adaption of a uniform patch whose cells are all marked for
\* coarsening gives back the uniform patch one level coarser, with one cell
\* per octant and the adjacencies of the uniform grid.
RoundTripRestoresUniformPatch ==
    [][\A l \in 0 .. MaxUniformLevel :
          (IsUpdate /\ UniformPatch(Patch, tree, l)) =>
              /\ (EveryMarker(tree, 1) /\ l < MaxUniformLevel) =>
                    /\ result'.outcome = "synced"
                    /\ UniformPatch(Patch', tree', l + 1)
              /\ (EveryMarker(tree, -1) /\ l > 0) =>
                    /\ result'.outcome = "synced"
                    /\ UniformPatch(Patch', tree', l - 1)]_vars

\* the cells of the patch P over the tree T whose octants touch across a
\* face or at a corner and have balancing enabled are at most one level apart
Balanced(P, T) ==
    \A a \in DOMAIN P.cells, b \in DOMAIN P.cells :
        LET oa == T[P.cellToOctant[a] + 1]
            ob == T[P.cellToOctant[b] + 1]
        IN  (a # b /\ oa.balance /\ ob.balance /\ Touch(oa, ob)) =>
                (oa.level - ob.level <= 1 /\ ob.level - oa.level <= 1)

\* C13: after every update_adaption that returns, any two cells that touch
\* across a face or at a vertex and both have balancing enabled are at most
\* one refinement level apart.
TwoToOneBalance ==
    [][(IsUpdate /\ result'.outcome \in {"synced", "unchanged"}) =>
          Balanced(Patch', tree')]_vars

\* the last update refined a cell to keep the balance: a balanced cell of
\* the deepest level touches a balanced cell one level coarser in a tree that
\* holds more octants than the refinement of marked cells alone can give
BalancingRefinedACell ==
    /\ SyncCompleted
    /\ Len(tree) > MaxDeepOctants
    /\ \E i \in DOMAIN tree, j \in DOMAIN tree :
          /\ tree[i].balance /\ tree[j].balance
          /\ Touch(tree[i], tree[j])
          /\ tree[i].level = tree[j].level + 1
          /\ tree[j].level >= 2

\* the octants of T other than the one at index t are those of U
SameButAt(T, U, t) ==
    /\ DOMAIN T = DOMAIN U
    /\ \A i \in DOMAIN T : i # t => T[i] = U[i]

\* C14: marking a ghost cell for refinement or coarsening, or setting its
\* balancing, returns false and changes nothing; on an interior cell the call
\* returns true, gives the marker of the cell's octant the value +1 or -1
\* (or its balance flag the given value) and changes nothing else.
MarkingAnswersByOwnership ==
    [][lastCall'.operation \in {"set_marker", "enableCellBalancing"} =>
          LET id == lastCall'.id
              t  == cellToOctant[id] + 1
          IN  /\ UNCHANGED <<patchVars, ghosts, cellToGhost, mapping, geometryVars>>
              /\ IF ~cells[id].interior
                 THEN /\ lastCall'.returned = FALSE
                      /\ tree' = tree
                 ELSE /\ lastCall'.returned = TRUE
                      /\ SameButAt(tree, tree', t)
                      /\ IF lastCall'.operation = "set_marker"
                         THEN /\ lastCall'.value \in {1, -1}
                              /\ tree'[t] = [tree[t] EXCEPT !.marker = lastCall'.value]
                         ELSE tree'[t] = [tree[t] EXCEPT !.balance = lastCall'.value]]_vars

\* the last call marked a ghost cell and was refused, while an interior cell
\* is marked for coarsening and another has balancing enabled
GhostRefusedInteriorMarked ==
    /\ lastCall.operation = "set_marker"
    /\ ~cells[lastCall.id].interior
    /\ lastCall.returned = FALSE
    /\ \E a \in DOMAIN cellToOctant, b \in DOMAIN cellToOctant :
          /\ a # b
          /\ tree[cellToOctant[a] + 1].marker = -1
          /\ tree[cellToOctant[b] + 1].balance
          /\ tree[cellToOctant[b] + 1].marker = 0

\* every two of the three scaling factors agree within the tolerance
FactorsAgree(scaling) ==
    \A i \in 1 .. 3, j \in 1 .. 3 : Abs(scaling[i] - scaling[j]) <= Tolerance

\* C16 as stated: scale(s) is applied when the three components of s agree
\* within 1e-14, and then the tree length becomes L * s[0] and the tables are
\* those of the new length; it is rejected when they differ, and then the
\* tree length, the tables and the vertices stay as they were.
ScaleAppliesUniformFactorsOnly ==
    [][lastCall'.operation = "scale" =>
          IF FactorsAgree(lastCall'.scaling)
          THEN /\ status' = "ok"
               /\ treeLength' = Times(treeLength, Real(lastCall'.scaling[1], 1, 0))
               /\ tree_dh' = initializeTreeGeometry(treeLength').dh
               /\ tree_area' = initializeTreeGeometry(treeLength').area
               /\ tree_volume' = initializeTreeGeometry(treeLength').volume
          ELSE UNCHANGED <<geometryVars, vertices>>]_vars

\* the real numbers x and y are equal
SameReal(x, y) ==
    /\ x.ticks = y.ticks
    /\ x.num * Pow2(y.halvings) = y.num * Pow2(x.halvings)

\* C17 as stated: for a cell or interface of any level l in [0, MAX_LEVEL]
\* the three evaluations read an entry that the tables have and return
\* L * 2^-l, (L * 2^-l)^dim and (L * 2^-l)^(dim-1).
EvaluationsReadTheTables ==
    lastCall.operation \in {"evalCellSize", "evalCellVolume", "evalInterfaceArea"} =>
        LET side == Real(treeLength.num, treeLength.ticks, treeLength.halvings + lastCall.level)
        IN  /\ lastCall.level \in 0 .. getMaxLevel
            /\ lastCall.level + 1 \in DOMAIN tree_dh
            /\ ~lastCall.fault
            /\ lastCall.operation = "evalCellSize" => SameReal(lastCall.value, side)
            /\ lastCall.operation = "evalCellVolume" =>
                  SameReal(lastCall.value, pow(side, Dimension))
            /\ lastCall.operation = "evalInterfaceArea" =>
                  SameReal(lastCall.value, pow(side, Dimension - 1))

\* the faces of the reference cell that local vertex v lies on
FacesAtVertex(v) == {f \in Faces : v \in Range(cellLocalFaceConnect[f + 1])}

\* in three dimensions the edges listed for a vertex are the edges whose two
\* faces both hold the vertex (face f lies on the side f % 2 of the axis
\* f \div 2, vertex v on the side given by that bit of v)
EdgeTablesIncident ==
    \A v \in 0 .. 7 :
        Range(octantLocalEdgesOnVertex3D[v + 1]) =
            {e \in 0 .. 11 : \A f \in Range(octantLocalFacesOnEdge3D[e + 1]) :
                                (v \div Pow2(f \div 2)) % 2 = f % 2}

\* the octant of a cell, internal or ghost
OctantOfCell(id) ==
    IF cells[id].interior THEN tree[cellToOctant[id] + 1] ELSE ghosts[cellToGhost[id] + 1]

\* the square b holds the point of the grid that lies diagonally across
\* vertex v of the square a
AcrossVertex(a, v, b) ==
    LET ux == IF v % 2 = 1 THEN a.x + OctSize(a) ELSE a.x - 1
        uy == IF v \div 2 = 1 THEN a.y + OctSize(a) ELSE a.y - 1
    IN  /\ b.x <= ux /\ ux < b.x + OctSize(b)
        /\ b.y <= uy /\ uy < b.y + OctSize(b)

\* the list a vertex query returned: strictly ascending, free of black-listed
\* ids, and holding the cells whose octants lie across the vertex or across
\* a face at the vertex
VertexNeighsAreOrderedUnion ==
    lastCall.operation = "findCellVertexNeighs" =>
        LET r  == lastCall.returned
            id == lastCall.id
            bl == lastCall.blackList
        IN  /\ \A i \in DOMAIN r, j \in DOMAIN r : i < j => r[i] < r[j]
            /\ Range(r) \cap bl = {}
            /\ Range(r) =
                  {c \in DOMAIN cells \ ({id} \cup bl) :
                      \/ AcrossVertex(OctantOfCell(id), lastCall.index, OctantOfCell(c))
                      \/ \E f \in FacesAtVertex(lastCall.index) :
                             AcrossFace(OctantOfCell(id), f, OctantOfCell(c))}

\* C18 as stated: find_cell_vertex_neighs returns a strictly ascending list
\* without black-listed ids that is the union of the vertex query of the
\* octree with the face neighbours across every face at the vertex (in 3-D:
\* across every edge at the vertex, each with its two faces), and
\* find_cell_edge_neighs on a 2-D patch returns an empty list.
NeighsOrderedAndEdgeQueryEmpty ==
    /\ VertexNeighsAreOrderedUnion
    /\ EdgeTablesIncident
    /\ lastCall.operation = "findCellEdgeNeighs" =>
          (~lastCall.fault /\ lastCall.returned = <<>>)

\* C19 as stated: whatever ids of the 64-bit range are pushed and deleted, no
\* run of a face holds an id twice (a push of an id the run holds leaves the
\* run as it is), and isFaceBorder holds exactly of the faces whose run of
\* adjacencies is empty.
FaceRunsHoldNoIdTwice ==
    0 \in DOMAIN cells =>
        \A face \in Faces :
            /\ ~HasDuplicates(cells[0].adjacencies[face + 1])
            /\ ~HasDuplicates(cells[0].interfaces[face + 1])
            /\ isFaceBorder(cells[0], face) <=> cells[0].adjacencies[face + 1] = <<>>

RECURSIVE Bytes(_)
Bytes(stream) == IF stream = <<>> THEN 0 ELSE Head(stream).bytes + Bytes(Tail(stream))

\* C20: a cell read from the stream another cell was written to has the
\* type, id and connectivity, the interface runs and the adjacency runs of
\* the cell written, and the read takes exactly what was written; the binary
\* size of a cell is the number of bytes its writing puts on the stream.
StreamRoundTripRestoresCell ==
    /\ (buffer # <<>> /\ 0 \in DOMAIN cells) =>
          /\ lastCall.operation = "getBinarySize"
          /\ lastCall.returned = Bytes(buffer)
          /\ buffer = ElementWords(cells[0]) \o RaggedWords(cells[0].interfaces)
                          \o RaggedWords(cells[0].adjacencies)
    /\ 1 \in DOMAIN cells =>
          /\ buffer = <<>>
          /\ cells[1].type = cells[0].type
          /\ cells[1].id = cells[0].id
          /\ cells[1].connect = cells[0].connect
          /\ cells[1].interfaces = cells[0].interfaces
          /\ cells[1].adjacencies = cells[0].adjacencies

\* a cell was read back whose faces hold interfaces and adjacencies in runs
\* of different lengths, one of them an id wider than an int
CellWithUnevenRunsReadBack ==
    /\ 1 \in DOMAIN cells
    /\ Len(cells[1].interfaces[1]) = 1
    /\ Len(cells[1].adjacencies[2]) = 2
    /\ cells[1].interfaces # cells[1].adjacencies
    /\ \E k \in DOMAIN cells[1].adjacencies[2] : cells[1].adjacencies[2][k] >= Pow2(IntBits - 1)

\* the cells listed by the events of the given type and rank, in order
EventCells(events, type, rank, side) ==
    Flatten([k \in DOMAIN events |->
                IF events[k].type = type /\ events[k].rank = rank
                THEN (IF side = "previous" THEN events[k].previous
                      ELSE events[k].current)
                ELSE <<>>])

\* every rank has synced after the last load balance
AllSyncedAfterLoadBalance ==
    /\ ranks # <<>>
    /\ \A r \in DOMAIN ranks :
          ranks[r].lastTreeOperation = "OP_LOAD_BALANCE" /\ ~ranks[r].stale

\* octants of the cells rank r reports as sent to rank q
SentOctants(r, q) ==
    LET sent == EventCells(ranks[r + 1].events, "PARTITION_SEND", q, "previous")
    IN  [k \in DOMAIN sent |-> ranks[r + 1].removed[sent[k]]]

\* octants of the cells rank q reports as received from rank r
ReceivedOctants(q, r) ==
    LET received == EventCells(ranks[q + 1].events, "PARTITION_RECV", r, "current")
    IN  [k \in DOMAIN received |-> ranks[q + 1].cellOctants[received[k]]]

\* C15: after a load balance and a tracked sync on all ranks, for every
\* ordered pair of distinct ranks the cells sent by the one to the other
\* and the cells the other received from it are as many, and the k-th of
\* each are the same octant.
SendReceivePairing ==
    AllSyncedAfterLoadBalance =>
        \A r \in 0 .. (nRanks - 1), q \in 0 .. (nRanks - 1) :
            r # q => SentOctants(r, q) = ReceivedOctants(q, r)

\* the point where the line through P along n meets the plane of T lies in T
MeetsInside(P, n, T) ==
    LET plane == intersectLinePlane(P, n, T[1],
                                    crossProduct(Minus(T[2], T[1]), Minus(T[3], T[1])))
    IN  plane.returned /\ intersectPointTriangle(plane.P, T[1], T[2], T[3])

\* that point lies on the segment from P to P + n as well
MeetsInsideOnSegment(P, n, T) ==
    LET plane == intersectLinePlane(P, n, T[1],
                                    crossProduct(Minus(T[2], T[1]), Minus(T[3], T[1])))
    IN  MeetsInside(P, n, T) /\ intersectPointSegment(plane.P, P, Plus(P, n))

\* C21: intersectLineTriangle returns true exactly when the line meets the
\* plane of the triangle at a point inside the triangle (false when it is
\* parallel or meets the plane outside), intersectSegmentTriangle only when
\* that point lies on the segment too, and the output point is written
\* only when the result is true.
TriangleIntersectionsAreExact ==
    /\ lastCall.operation = "intersectLineTriangle" =>
          /\ lastCall.returned = MeetsInside(lastCall.P, lastCall.n, lastCall.T)
          /\ ~lastCall.returned => lastCall.Q = Unwritten
    /\ lastCall.operation = "intersectSegmentTriangle" =>
          /\ lastCall.returned => MeetsInsideOnSegment(lastCall.P, lastCall.n, lastCall.T)
          /\ ~MeetsInside(lastCall.P, lastCall.n, lastCall.T) => ~lastCall.returned
          /\ ~lastCall.returned => lastCall.Q = Unwritten

\* the relative complement along axis k, every value taken from axis k
ComplementOnAxis(A, B, k) ==
    [C0 |-> IF B[1][k] <= A[1][k] /\ A[1][k] <= B[2][k] THEN B[2][k] ELSE A[1][k],
     C1 |-> IF B[1][k] <= A[2][k] /\ A[2][k] <= B[2][k] THEN B[1][k] ELSE A[2][k]]

\* B covers A along the two axes other than k
CoversAcross(A, B, k) ==
    \A j \in (1 .. 3) \ {k} : B[1][j] <= A[1][j] /\ B[2][j] >= A[2][j]

\* C22: for each axis k along which B covers A in the two other axes,
\* subtractionAABB sets C0[k] and C1[k] to the relative complement along k,
\* every value taken from axis k.
SubtractionIsPerAxisComplement ==
    lastCall.operation = "subtractionAABB" =>
        \A k \in 1 .. 3 :
            CoversAcross(lastCall.A, lastCall.B, k) =>
                /\ lastCall.C.C0[k] = ComplementOnAxis(lastCall.A, lastCall.B, k).C0
                /\ lastCall.C.C1[k] = ComplementOnAxis(lastCall.A, lastCall.B, k).C1

\* the flag of the conventions: 0 inside, +i at the i-th vertex, -i on the
\* edge from the i-th vertex to the following one
ExpectedFlag(lambda) ==
    LET positive == {i \in 1 .. 3 : lambda[i] > 0}
    IN  IF Cardinality(positive) = 3 THEN 0
        ELSE IF Cardinality(positive) = 1 THEN CHOOSE i \in positive : TRUE
        ELSE CHOOSE e \in {-1, -2, -3} : positive = {-e, (-e % 3) + 1}

\* C23: both conversions return 0 inside, +i at the i-th vertex and -i on
\* the edge from the i-th vertex to the next, distinct edges get distinct
\* flags, and for three vertices the simplex conversion returns the flag of
\* the triangle conversion for every sign pattern.
FlagsFollowTheConvention ==
    lastCall.operation = "convertBarycentricToFlag" =>
        /\ lastCall.triangle = ExpectedFlag(lastCall.lambda)
        /\ lastCall.simplex = ExpectedFlag(lastCall.lambda)
        /\ lastCall.simplex = lastCall.triangle

\* the cells of the octants the tree reports across face f of the octant of c
TreeFaceNeighbours(c, f) ==
    {octantToCell[j] : j \in Range(findNeighbours(tree, cellToOctant[c], f))}

\* C24: after every sync that completed, the adjacency run of every face of
\* every live cell holds exactly the cells of the octants the adapted tree
\* reports across that face, each once: the open faces the deletion left on
\* dangling cells are reconnected to the new cells.
AdjacenciesMatchTree ==
    SyncCompleted =>
        \A c \in DOMAIN cells : \A f \in Faces :
            /\ Range(cells[c].adjacencies[f + 1]) \ {NULL_ID} = TreeFaceNeighbours(c, f)
            /\ ~HasDuplicates(cells[c].adjacencies[f + 1])

\* a sync refined a cell beside cells that stay, and a cell that stays now
\* has a new cell across the face the deletion had opened
DanglingFaceReconnected ==
    /\ SyncCompleted
    /\ result.deleted # {}
    /\ \E c \in result.dangling : \E f \in Faces :
          /\ c \in DOMAIN cells
          /\ Range(cells[c].adjacencies[f + 1]) \cap Range(result.created) # {}
          /\ Range(result.afterDelete.cells[c].adjacencies[f + 1]) \cap Range(result.created) = {}

\* C25: a tracked sync whose adapted tree has depth 0 (the root octant alone)
\* completes without an arithmetic fault and leaves a single cell with
\* every face a border.
SyncCompletesAtDepthZero ==
    (result.track /\ result.outcome \notin {"none", "unchanged"} /\ getMaxDepth(tree) = 0) =>
        /\ result.outcome = "synced"
        /\ Cardinality(DOMAIN cells) = 1
        /\ \A c \in DOMAIN cells : \A f \in Faces : isFaceBorder(cells[c], f)

\* C26: the ids a sync gives to the cells it creates belong to no cell that
\* was in the patch before the sync, the cells this sync deletes included:
\* in every REFINEMENT and COARSENING event the previous and the current
\* ids are disjoint.
CreatedIdsAreFresh ==
    [][(IsUpdate /\ result'.outcome = "synced") =>
          /\ Range(result'.created) \cap DOMAIN cells = {}
          /\ \A e \in CellEvents(result'.events) :
                e.type \in {"REFINEMENT", "COARSENING"} =>
                    Range(e.previous) \cap Range(e.current) = {}]_vars

\* a tracked sync of a patch that had lost cells to an earlier sync replaced
\* a cell by its children
RefinedAfterEarlierDeletion ==
    /\ SyncCompleted
    /\ adaptions > 2
    /\ \E e \in CellEvents(result.events) :
          /\ e.type = "REFINEMENT"
          /\ Range(e.previous) # {} /\ Range(e.previous) \subseteq result.deleted
          /\ Range(e.current) # {} /\ Range(e.current) \subseteq Range(result.created)
          /\ \E c \in Range(e.current) : \E d \in Range(e.previous) : c > d + nChildren

\* the cells the sync of the step schedules for deletion, in order
ScheduledForDeletion ==
    LET scan == SyncScan(Patch, tree', mapping', lastTreeOperation', result'.track)
    IN  [k \in DOMAIN scan.deleted |-> scan.deleted[k].cellId]

\* the tree indices the sync of the step schedules for import
ScheduledForImport ==
    Range(SyncScan(Patch, tree', mapping', lastTreeOperation', result'.track).added)

\* C27: in one sync no cell of the previous patch is scheduled for deletion
\* more than once, whatever the adaption did to the tree (an octant refined
\* by more than one level included): the scan takes no tree index beyond the
\* octants of the tree and the reset of the maps and the deletion handle each
\* dead cell once, so the sync does not fail on a missing map entry.
DeadCellsScheduledOnce ==
    [][(IsUpdate /\ result'.outcome \in {"synced", "out_of_range", "arithmetic_fault"}) =>
          /\ ~HasDuplicates(ScheduledForDeletion)
          /\ \A t \in ScheduledForImport : t < Len(tree')
          /\ result'.outcome # "out_of_range"]_vars

\* the octant is the same octant of the domain: same anchor, same level
SameOctant(a, b) == a.x = b.x /\ a.y = b.y /\ a.level = b.level

\* the cell appears in no cell event of the list
InNoEvent(c, events) ==
    \A e \in CellEvents(events) : c \notin Range(e.current) \cup Range(e.previous)

\* the maps of the patch after the step hold the renumbered cell under the
\* tree index its octant has in the adapted tree, and no longer under the
\* index it had
MapsRewritten(c) ==
    /\ c \in DOMAIN cellToOctant /\ c \in DOMAIN cellToOctant'
    /\ cellToOctant'[c] # cellToOctant[c]
    /\ cellToOctant'[c] < Len(tree')
    /\ SameOctant(tree'[cellToOctant'[c] + 1], tree[cellToOctant[c] + 1])
    /\ getOctantId(octantToCell', cellToOctant'[c]) = c
    /\ getOctantId(octantToCell', cellToOctant[c]) # c

\* C28 as stated: a cell whose octant is only renumbered by an adaption
\* keeps its id, its vertex connectivity, its adjacencies and its interfaces
\* across the sync; its map entries are rewritten to the new tree index and
\* no returned event mentions it.
RenumberedCellsUntouched ==
    [][(IsUpdate /\ result'.outcome = "synced") =>
          \A c \in result'.renumbered :
              /\ c \in DOMAIN cells /\ c \in DOMAIN cells'
              /\ cells'[c].connect = cells[c].connect
              /\ cells'[c].adjacencies = cells[c].adjacencies
              /\ cells'[c].interfaces = cells[c].interfaces
              /\ MapsRewritten(c)
              /\ InNoEvent(c, result'.events)]_vars

\* C28 (as the code has it): a cell whose octant is only renumbered keeps
\* its id and its vertex connectivity, and keeps the adjacency run and the
\* interface run of every face that had no deleted cell across it; its map
\* entries are rewritten to the new tree index, the old octant->cell entry
\* no longer points to it, and no returned event mentions it.  The runs of a
\* face whose neighbour the sync deleted are rebuilt as for any dangling cell.
RenumberedCellsKeepUntouchedFaces ==
    [][(IsUpdate /\ result'.outcome = "synced") =>
          \A c \in result'.renumbered :
              /\ c \in DOMAIN cells /\ c \in DOMAIN cells'
              /\ cells'[c].connect = cells[c].connect
              /\ \A f \in Faces :
                    (Range(cells[c].adjacencies[f + 1]) \cap result'.deleted = {}) =>
                        /\ cells'[c].adjacencies[f + 1] = cells[c].adjacencies[f + 1]
                        /\ cells'[c].interfaces[f + 1] = cells[c].interfaces[f + 1]
              /\ MapsRewritten(c)
              /\ InNoEvent(c, result'.events)]_vars

\* a tracked sync renumbered a cell beside a deleted cell and a cell with no
\* deleted cell across any face
RenumberedBesideAndApart ==
    /\ SyncCompleted
    /\ result.track
    /\ result.renumbered \cap result.dangling # {}
    /\ result.renumbered \ result.dangling # {}

\* the interfaces of the patch before the step that join face f of cell c
\* to a cell the sync deletes
DeadInterfacesOn(c, f) ==
    {i \in DOMAIN interfaces :
        \/ /\ interfaces[i].owner = c /\ interfaces[i].ownerFace = f
           /\ interfaces[i].neigh \in result'.deleted
        \/ /\ interfaces[i].neigh = c /\ interfaces[i].neighFace = f
           /\ interfaces[i].owner \in result'.deleted}

\* the deleted cells those interfaces join the face to
DeadNeighboursOn(c, f) ==
    {IF interfaces[i].owner = c THEN interfaces[i].neigh ELSE interfaces[i].owner :
        i \in DeadInterfacesOn(c, f)}

Without(run, ids) == SelectSeq(run, LAMBDA x : x \notin ids)

\* C29: deleteCells keeps every cell that is not deleted; from each face of
\* a surviving cell it removes exactly the interfaces that joined the face
\* to a deleted cell and exactly those deleted neighbours, the other
\* entries of the face keep their order and the other faces their runs; an
\* interface is removed from the patch exactly when one of its cells is
\* deleted, also when both are.
DeleteCellsDetachesExactly ==
    [][(IsUpdate /\ result'.outcome = "synced" /\ result'.deleted # {}) =>
          LET after == result'.afterDelete
          IN  /\ DOMAIN after.cells = DOMAIN cells \ result'.deleted
              /\ \A c \in DOMAIN cells \ result'.deleted : \A f \in Faces :
                    /\ after.cells[c].interfaces[f + 1] =
                          Without(cells[c].interfaces[f + 1], DeadInterfacesOn(c, f))
                    /\ after.cells[c].adjacencies[f + 1] =
                          Without(cells[c].adjacencies[f + 1], DeadNeighboursOn(c, f))
                    /\ DeadNeighboursOn(c, f) \subseteq Range(cells[c].adjacencies[f + 1])
                    /\ DeadInterfacesOn(c, f) \subseteq Range(cells[c].interfaces[f + 1])
              /\ result'.dangling =
                    {c \in DOMAIN cells \ result'.deleted :
                        \E f \in Faces : DeadInterfacesOn(c, f) # {}}
              /\ DOMAIN after.interfaces =
                    {i \in DOMAIN interfaces :
                        /\ interfaces[i].owner \notin result'.deleted
                        /\ interfaces[i].neigh \notin result'.deleted}]_vars

\* a sync deleted a family of cells, which share interfaces, beside a cell
\* that stays: a face of that cell is left with no neighbour, and a face of
\* a cell that stays lost one of two neighbours
DeletedBesideLivingCells ==
    /\ SyncCompleted
    /\ Cardinality(result.deleted) >= nChildren
    /\ \E c \in result.dangling : \E f \in Faces :
          /\ result.afterDelete.cells[c].adjacencies[f + 1] = <<>>
          /\ Len(result.afterDelete.cells[c].interfaces[f + 1]) = 0
    /\ \E c \in result.dangling : \E f \in Faces :
          Len(result.afterDelete.cells[c].adjacencies[f + 1]) = 1

AllFaces(runs, P(_)) == Len(runs) = nCellFaces /\ \A f \in Faces : P(runs[f + 1])

HoldsAPlaceholder(run) == Len(run) >= 1 /\ run[1] = NULL_ID

\* the run the asked face has in the cell
AskedRun ==
    IF lastCall'.operation = "getInterface" THEN cells[0].interfaces[lastCall'.face + 1]
    ELSE cells[0].adjacencies[lastCall'.face + 1]

\* C30 as stated: when a cell of known type stores its neighbourhood
\* (construction, initialize with storeNeighbourhood = true,
\* resetInterfaces(true), resetAdjacencies(true)) every face has at least
\* one interface entry and at least one adjacency entry, an unlinked face
\* holding the placeholder NULL_ID, so that getInterface(face, 0) and
\* getAdjacency(face, 0) are defined for every face: they return the first
\* entry of the run of the face.
FacesHoldAnEntry ==
    [][/\ createCell => /\ AllFaces(cells'[0].interfaces, HoldsAPlaceholder)
                        /\ AllFaces(cells'[0].adjacencies, HoldsAPlaceholder)
       /\ (\E id \in {7}, interior \in BOOLEAN : initializeCell(id, interior, TRUE)) =>
             /\ AllFaces(cells'[0].interfaces, HoldsAPlaceholder)
             /\ AllFaces(cells'[0].adjacencies, HoldsAPlaceholder)
       /\ resetCellInterfaces(TRUE) => AllFaces(cells'[0].interfaces, HoldsAPlaceholder)
       /\ resetCellAdjacencies(TRUE) => AllFaces(cells'[0].adjacencies, HoldsAPlaceholder)
       /\ (getCellInterface \/ getCellAdjacency) =>
             /\ ~lastCall'.fault
             /\ Len(AskedRun) > 0
             /\ lastCall'.returned = AskedRun[1]]_vars

====
